---- MODULE Spec2Model ----
(***************************************************************************)
(* The per-environment plugin container of the dev server                  *)
(* (packages/vite/src/node/server/pluginContainer.ts) and the dev          *)
(* environment around it (packages/vite/src/node/server/environment.ts)    *)
(* as state machines.                                                      *)
(*                                                                         *)
(* JavaScript runs one task at a time; a task runs from one suspension     *)
(* point (await) to the next without interruption.  Every action below is  *)
(* one such synchronous segment.  Plugin handlers are external code: an    *)
(* invocation either completes synchronously or returns a promise that the *)
(* environment settles later with a result drawn from a small set.         *)
(***************************************************************************)
EXTENDS Integers, Sequences, FiniteSets, TLC

VARIABLES
    plugins,        \* configuration: the plugins the container was created with, in input order
    recoverable,    \* configuration: environment.options.dev.recoverable
    closed,         \* let closed = false
    processesing,   \* const processesing = new Set<Promise<any>>()
    calls,          \* resolveId / load / transform calls, in the order they were made
    runs,           \* buildStart / watchChange / close calls, in the order they were made
    count,          \* history: hook -> plugin -> number of handler invocations
    running,        \* history: <<run, hook, plugin>> of unsettled parallel-hook handlers
    lateStart,      \* history: plugins whose buildStart handler ran after their buildEnd handler
    finder,         \* the state a CrawlEndFinder closes over (setupOnCrawlEnd)
    requests,       \* the request processings started through registerRequestProcessing
    crawlLog,       \* history of the finder: invocations, and the time since the set emptied
    graph,          \* environment.moduleGraph.urlToModuleMap: path -> module node
    hmrLog,         \* history: the 'vite:invalidate' events handled and the flag resets
    tctx,           \* a TransformContext: sourcemapChain and combinedMap
    mapLog,         \* history: the last _getCombinedSourcemap call, and every map pushed
    pipes,          \* transform calls whose errors are followed: the context and the error of each
    ctxLog,         \* history: the calls of emitFile, setAssetSource, getFileName made by handlers
    env,            \* a DevEnvironment: _initiated, _pluginContainer, _closing, _pendingRequests
    inits,          \* the init() calls made on it, in order
    addedSets,      \* the Set objects made by addWatchFile, by reference (index)
    moduleNodeToLoadAddedImports, \* the entry of the module node: a reference, 0 for null or none
    loads,          \* the container.load(id) calls, in call order
    transforms      \* the container.transform(code, id) calls, in call order

containerVars == <<plugins, recoverable, closed, processesing, calls, runs, count, running, lateStart>>
finderVars == <<finder, requests, crawlLog>>
hmrVars == <<graph, hmrLog>>
mapVars == <<tctx, mapLog>>
pipeVars == <<pipes>>
ctxVars == <<ctxLog>>
devVars == <<env, inits>>
impVars == <<addedSets, moduleNodeToLoadAddedImports, loads, transforms>>
envVars == <<finderVars, hmrVars, mapVars, pipeVars, ctxVars, devVars, impVars>>
vars == <<containerVars, envVars>>

\* What the actions of one part leave alone.
offFinder == <<containerVars, hmrVars, mapVars, pipeVars, ctxVars, devVars, impVars>>
offHmr == <<containerVars, finderVars, mapVars, pipeVars, ctxVars, devVars, impVars>>
offMap == <<containerVars, finderVars, hmrVars, pipeVars, ctxVars, devVars, impVars>>
offPipe == <<containerVars, finderVars, hmrVars, mapVars, ctxVars, devVars, impVars>>
offCtx == <<containerVars, finderVars, hmrVars, mapVars, pipeVars, devVars, impVars>>
offDev == <<containerVars, finderVars, hmrVars, mapVars, pipeVars, ctxVars, impVars>>
offImp == <<containerVars, finderVars, hmrVars, mapVars, pipeVars, ctxVars, devVars>>

(***************************************************************************)
(* Bounds of the model.                                                    *)
(***************************************************************************)
MaxCalls == 2        \* resolveId/load/transform calls made on a container that stays open
MaxTasks == 2        \* container method calls (chain calls and parallel-hook calls) in one behaviour of Spec
MaxResolves == 3     \* resolveId calls of one resolution: the outer call and the this.resolve calls under it

(***************************************************************************)
(* The plugins a container can be created with, and the hooks each one     *)
(* defines.  A, B and C are request-serving plugins; P and Q also take     *)
(* part in the build lifecycle; E, F, G and H only watch files, G with a   *)
(* sequential handler.                                                     *)
(***************************************************************************)
Plugins == {"A", "B", "C", "P", "Q", "E", "F", "G", "H"}
NoPlugin == "none"

ChainHooks == {"resolveId", "load", "transform"}
ParallelHooks == {"buildStart", "watchChange", "buildEnd", "closeBundle"}

\* plugin[hookName] is set
Defines(p, h) ==
    CASE h = "resolveId"   -> TRUE
      [] h = "load"        -> p \in {"A", "C", "P"}
      [] h = "transform"   -> p \in {"A", "B", "Q"}
      [] h = "buildStart"  -> p \in {"P"}
      [] h = "watchChange" -> p \in {"Q", "E", "F", "G", "H"}
      [] h = "buildEnd"    -> p \in {"P", "Q"}
      [] h = "closeBundle" -> p \in {"Q"}
      [] OTHER             -> FALSE

\* (hook as { sequential?: boolean }).sequential
Sequential(p, h) == (h = "buildEnd" /\ p = "Q") \/ (h = "watchChange" /\ p = "G")

\* hook.order of plugin p for hook h: 'pre', 'post', or "normal" when the hook is a
\* bare function or states no order
Order(p, h) ==
    CASE h = "resolveId" /\ p = "A"   -> "post"
      [] h = "resolveId" /\ p = "C"   -> "pre"
      [] h = "resolveId" /\ p = "Q"   -> "pre"
      [] h = "transform"              -> "pre"
      [] h = "load" /\ p = "C"        -> "pre"
      [] OTHER                        -> "normal"

(***************************************************************************)
(* HookUtilities: getSortedPlugins(hookName) keeps the plugins that define *)
(* the hook and places 'pre' before default before 'post', input order     *)
(* kept inside each tier.                                                  *)
(***************************************************************************)
Tier(t) == CASE t = "pre" -> 1 [] t = "post" -> 3 [] OTHER -> 2

InTier(h, t) == SelectSeq(plugins, LAMBDA p : Defines(p, h) /\ Tier(Order(p, h)) = t)

getSortedPlugins(h) == InTier(h, 1) \o InTier(h, 2) \o InTier(h, 3)

(***************************************************************************)
(* Values.  A string (an id, or a module's code) is a sequence of tokens;  *)
(* the empty string is <<>>.  A handler's outcome is a record: t is the    *)
(* JavaScript shape of what it returned, v the string it carries.          *)
(***************************************************************************)
NULL == [t |-> "null", v |-> <<>>]             \* null or undefined
FALSE_ == [t |-> "false", v |-> <<>>]          \* the boolean false
PENDING == [t |-> "pending", v |-> <<>>]       \* the handler has not settled yet
THROW == [t |-> "throw", v |-> <<>>]           \* the handler threw or its promise rejected
STR(s) == [t |-> "str", v |-> s]               \* a string
OBJ(s) == [t |-> "obj", v |-> s]               \* an object carrying id / code s
OBJNOCODE == [t |-> "objNoCode", v |-> <<>>]   \* an object whose code is undefined

NullStr == <<"null">>       \* null where a string can stand
InputCode == <<"src">>
RawId == <<"a">>

\* What a handler of plugin p may produce for each hook.
HandlerResults(kind, p) ==
    CASE kind = "resolveId" /\ p = "C" -> {NULL, FALSE_, STR(<<"d", "..", p>>), THROW}
      [] kind = "resolveId" /\ p = "B" -> {NULL, OBJ(<<"http:", "..", p>>)}
      [] kind = "resolveId"            -> {NULL, STR(<<"d", ".", p>>)}
      [] kind = "load" /\ p = "C"      -> {NULL, STR(<<>>), OBJ(<<"l", p>>), THROW}
      [] kind = "load"                 -> {NULL, STR(<<"l", p>>)}
      [] kind = "transform" /\ p = "A" -> {NULL, STR(<<>>), STR(<<"t", p>>), OBJNOCODE, OBJ(<<>>), THROW}
      [] OTHER                         -> {NULL, STR(<<"t", p>>)}

\* !result
IsFalsy(r) == r.t \in {"null", "false"} \/ (r.t = "str" /\ r.v = <<>>)

\* result != null
IsNonNull(r) == r.t # "null"

(***************************************************************************)
(* utils: isExternalUrl and normalizePath on token sequences.  A path is   *)
(* normalized by resolving "." and ".." segments from left to right.       *)
(***************************************************************************)
isExternalUrl(id) == Len(id) > 0 /\ id[1] \in {"http:", "https:"}

RECURSIVE NormalizeFrom(_, _)
NormalizeFrom(done, rest) ==
    IF rest = <<>> THEN done
    ELSE IF Head(rest) = "." THEN NormalizeFrom(done, Tail(rest))
    ELSE IF Head(rest) = ".." /\ done # <<>> /\ done[Len(done)] # ".."
         THEN NormalizeFrom(SubSeq(done, 1, Len(done) - 1), Tail(rest))
    ELSE NormalizeFrom(Append(done, Head(rest)), Tail(rest))

normalizePath(id) == NormalizeFrom(<<>>, id)

(***************************************************************************)
(* throwClosedServerError and the errors a call can reject with.           *)
(***************************************************************************)
ERR_CLOSED_SERVER == "ERR_CLOSED_SERVER"
NoError == [code |-> "", plugin |-> NoPlugin]
ClosedServerError == [code |-> ERR_CLOSED_SERVER, plugin |-> NoPlugin]
PluginError(p) == [code |-> "PLUGIN_ERROR", plugin |-> p]

(***************************************************************************)
(* A resolveId / load / transform call: an async function with its own     *)
(* context object (ctx).  st is where the function stands:                 *)
(*   "await"    suspended on a handler's promise (tracked by                *)
(*              handleHookPromise until it settles)                        *)
(*   "settled"  the awaited value is there, the continuation is queued     *)
(*   "returned" / "thrown"  the call's promise is fulfilled / rejected     *)
(***************************************************************************)
\* Where the container's shutdown stands: "open" until close() is first called,
\* "closing" while that call runs, "closed" once its promise has fulfilled.
CloseState ==
    IF ~closed THEN "open"
    ELSE IF \E i \in 1..Len(runs) : runs[i].kind = "close" /\ runs[i].first /\ runs[i].st = "resolved"
         THEN "closed"
    ELSE "closing"

NewCall(kind, skip, parent, caller, skipSelf) ==
    [ kind |-> kind,
      born |-> CloseState,      \* history: where the shutdown stood when the call was made
      skip |-> skip,            \* ctx._resolveSkips (resolveId only)
      parent |-> parent,        \* the call whose handler made this call through this.resolve, or 0
      caller |-> caller,        \* ctx._activePlugin of the parent when it called this.resolve
      skipSelf |-> skipSelf,    \* options.skipSelf !== false
      pos |-> 0,                \* index in getSortedPlugins(kind) of the plugin being visited
      st |-> "settled",
      id |-> RawId,             \* the id argument of the call
      active |-> NoPlugin,      \* ctx._activePlugin
      activeId |-> NullStr,     \* ctx._activeId
      activeCode |-> NullStr,   \* ctx._activeCode
      code |-> InputCode,       \* transform: the local variable code
      log |-> <<>>,             \* history: handlers invoked, the code each received, its outcome
      ret |-> NULL,
      err |-> NoError ]

Min(S) == CHOOSE x \in S : \A y \in S : x <= y

Max(S) == CHOOSE x \in S : \A y \in S : x >= y

\* A variant of the loop that walks the sorted plugins from the far end.
NextPos_FromEnd(S, skip, from) ==
    LET cand == {i \in (from + 1)..Len(S) : S[i] \notin skip}
    IN  IF cand = {} THEN 0 ELSE Max(cand)

\* for (const plugin of getSortedPlugins(hook)) { if (!plugin[hook]) continue;
\* if (skip?.has(plugin)) continue; ... }: the next plugin visited after index from, or 0
NextPos(S, skip, from) ==
    LET cand == {i \in (from + 1)..Len(S) : S[i] \notin skip}
    IN  IF cand = {} THEN 0 ELSE Min(cand)

\* Variants of the closed check: one that never rejects, one that rejects on every
\* closed container.
ClosedCheck_Never == FALSE
ClosedCheck_Always == closed

\* if (closed && environment?.options.dev.recoverable) throwClosedServerError()
ClosedCheck == closed /\ recoverable

\* The value the call returns when its loop is left with local id / code v.
ResolveReturn(id) ==
    IF id # <<>>
    THEN OBJ(IF isExternalUrl(id) THEN id ELSE normalizePath(id))
    ELSE NULL

LoopEnd(c) ==
    [c EXCEPT !.st = "returned",
              !.ret = IF c.kind = "transform" THEN OBJ(c.code) ELSE NULL]

\* The handler of plugin S[i] is invoked on the call's context.
Visit(c, S, i) ==
    [c EXCEPT !.pos = i,
              !.active = S[i],
              !.activeId = IF c.kind = "transform" THEN c.id ELSE @,
              !.activeCode = IF c.kind = "transform" THEN c.code ELSE @,
              !.st = "await",
              !.log = Append(@, [plugin |-> S[i], in |-> c.code, out |-> PENDING])]

\* A variant that leaves the code the transform started with on the context.
LoopTop_StaleCode(c) ==
    LET S == getSortedPlugins(c.kind)
        i == NextPos(S, c.skip, c.pos)
    IN  IF c.pos >= Len(S) THEN LoopEnd(c)
        ELSE IF ClosedCheck THEN [c EXCEPT !.st = "thrown", !.err = ClosedServerError]
        ELSE IF i = 0 THEN LoopEnd(c)
        ELSE [Visit(c, S, i) EXCEPT !.activeCode = IF c.kind = "transform" THEN InputCode ELSE @]

\* One turn of the for loop from the top: entered when the call starts and after
\* every `continue`.  When a plugin is left to visit, its handler is invoked and the
\* call awaits what it returned.
LoopTop(c) ==
    LET S == getSortedPlugins(c.kind)
        i == NextPos(S, c.skip, c.pos)
    IN  IF c.pos >= Len(S) THEN LoopEnd(c)
        ELSE IF ClosedCheck THEN [c EXCEPT !.st = "thrown", !.err = ClosedServerError]
        ELSE IF i = 0 THEN LoopEnd(c)
        ELSE Visit(c, S, i)

Last(q) == q[Len(q)]

SetOut(c, r) == [c EXCEPT !.log[Len(c.log)].out = r, !.st = "settled"]

\* handleHookPromise: a thenable is added to processesing until it settles
PromiseOf(i, c) == <<"call", i, c.pos>>

\* resolveId, after `await handleHookPromise(handler.call(ctx, ...))` gave r
ResolveIdResult(c, r) ==
    IF r.t = "throw" THEN [c EXCEPT !.st = "thrown", !.err = PluginError(c.active)]
    ELSE IF IsFalsy(r) THEN LoopTop(c)
    ELSE [c EXCEPT !.st = "returned", !.ret = ResolveReturn(r.v)]

\* load, after `await handleHookPromise(handler.call(ctx, id, options))` gave r
LoadResult(c, r) ==
    IF r.t = "throw" THEN [c EXCEPT !.st = "thrown", !.err = PluginError(c.active)]
    ELSE IF IsNonNull(r) THEN [c EXCEPT !.st = "returned", !.ret = r]
    ELSE LoopTop(c)

\* transform: a throw is routed through ctx.error; `if (!result) continue`;
\* an object replaces code when result.code !== undefined, a string always
TransformResult(c, r) ==
    IF r.t = "throw" THEN [c EXCEPT !.st = "thrown", !.err = PluginError(c.active)]
    ELSE IF IsFalsy(r) THEN LoopTop(c)
    ELSE IF r.t = "objNoCode" THEN LoopTop(c)
    ELSE LoopTop([c EXCEPT !.code = r.v])

Continue(c, r) ==
    CASE c.kind = "resolveId" -> ResolveIdResult(c, r)
      [] c.kind = "load"      -> LoadResult(c, r)
      [] OTHER                -> TransformResult(c, r)

\* A variant of Context.resolve that hands down the skips it was given without
\* adding the active plugin.
ResolveSkip_NoSelf(c, skipSelf) ==
    IF skipSelf /\ c.active # NoPlugin THEN c.skip ELSE {}

\* A variant of Context.resolve that skips the active plugin only, dropping
\* the skips the call itself was given.
ResolveSkip_OnlySelf(c, skipSelf) ==
    IF skipSelf /\ c.active # NoPlugin THEN {c.active} ELSE {}

\* Context.resolve: the skip set handed to container.resolveId
ResolveSkip(c, skipSelf) ==
    IF skipSelf /\ c.active # NoPlugin THEN c.skip \cup {c.active} ELSE {}

\* Whether one more call fits the bounds.
Room == Len(calls) + Len(runs) < MaxTasks
ChainRoom == Len(calls) < MaxCalls
ResolveRoom == Len(calls) < MaxResolves

(***************************************************************************)
(* Actions of resolveId / load / transform calls.                          *)
(***************************************************************************)
\* The list of calls once call i stands at c; i is one past the end for a new call.
Put(i, c) == IF i > Len(calls) THEN Append(calls, c) ELSE [calls EXCEPT ![i] = c]

\* Call i has run up to c.  When c invoked a handler, the handler either returned
\* a promise, which handleHookPromise tracks, or completed synchronously with some
\* outcome r, which is not tracked.
Invoked(i, c) ==
    IF c.st = "await"
    THEN \/ /\ calls' = Put(i, c)
            /\ processesing' = processesing \cup {PromiseOf(i, c)}
         \/ /\ \E r \in HandlerResults(c.kind, c.active) : calls' = Put(i, SetOut(c, r))
            /\ UNCHANGED processesing
    ELSE /\ calls' = Put(i, c)
         /\ UNCHANGED processesing

\* The id a call from outside is made with: every call asks for another module.
ArgId(i) == <<"m", i>>

\* container.resolveId / load / transform is called from outside: the function
\* runs to its first await.
CallStart(kind, room) ==
    /\ room
    /\ Invoked(Len(calls) + 1,
               LoopTop([NewCall(kind, {}, 0, NoPlugin, TRUE) EXCEPT !.id = ArgId(Len(calls) + 1)]))
    /\ UNCHANGED <<envVars, plugins, recoverable, closed, runs, count, running, lateStart>>

\* The running handler of call i calls this.resolve(id, importer, {skipSelf}).
HandlerResolve(i, skipSelf, room) ==
    /\ room
    /\ calls[i].kind = "resolveId"
    /\ calls[i].st = "await"
    /\ Invoked(Len(calls) + 1,
               LoopTop(NewCall("resolveId", ResolveSkip(calls[i], skipSelf), i,
                               calls[i].active, skipSelf)))
    /\ UNCHANGED <<envVars, plugins, recoverable, closed, runs, count, running, lateStart>>

\* The promise of the running handler of call i settles with r; the finally
\* callback of handleHookPromise removes it from processesing.
HandlerSettle(i) ==
    /\ calls[i].st = "await"
    /\ PromiseOf(i, calls[i]) \in processesing
    /\ \E r \in HandlerResults(calls[i].kind, calls[i].active) :
          calls' = [calls EXCEPT ![i] = SetOut(calls[i], r)]
    /\ processesing' = processesing \ {PromiseOf(i, calls[i])}
    /\ UNCHANGED <<envVars, plugins, recoverable, closed, runs, count, running, lateStart>>

\* Call i resumes after its await with the handler's outcome.
ChainStep(i) ==
    /\ calls[i].st = "settled"
    /\ Invoked(i, Continue(calls[i], Last(calls[i].log).out))
    /\ UNCHANGED <<envVars, plugins, recoverable, closed, runs, count, running, lateStart>>

(***************************************************************************)
(* buildStart, watchChange and close: each drives hookParallel.  A run is  *)
(* one such call.  st is where it stands:                                  *)
(*   "drain"      close: await Promise.allSettled(Array.from(processesing))*)
(*   "waitAll"    hookParallel: await Promise.all(parallelPromises) before *)
(*                the sequential handler of the plugin at pos              *)
(*   "waitSeq"    hookParallel: await handler.apply(...) of the sequential *)
(*                handler of the plugin at pos                             *)
(*   "waitFinal"  hookParallel: the last await Promise.all(parallelPromises)*)
(*   "resolved" / "rejected"  the call's promise is fulfilled / rejected   *)
(***************************************************************************)
NewRun(kind) ==
    [ kind |-> kind,
      born |-> CloseState,    \* history: where the shutdown stood when the call was made
      hook |-> kind,          \* hookName of the hookParallel call in progress
      st |-> "resolved",
      pos |-> 0,              \* index in getSortedPlugins(hook)
      pending |-> {},         \* plugins whose promise in parallelPromises is unsettled
      failed |-> FALSE,       \* a promise in parallelPromises has rejected
      seqDone |-> FALSE,      \* waitSeq: the awaited handler has fulfilled
      snapshot |-> {},        \* close: Array.from(processesing)
      first |-> FALSE,        \* close: this call found closed unset
      begun |-> {},           \* history: <<hook, plugin>> of the handlers this call invoked
      fulfilled |-> {} ]      \* history: those that returned a value or whose promise fulfilled

HandlerModes == {"throw", "value", "promise"}

\* A variant of the loop that treats a sequential handler like any other.
RECURSIVE Scan_NoBarrier(_, _, _, _, _)
Scan_NoBarrier(r, i, f, inv, pend) ==
    LET S == getSortedPlugins(r.hook)
    IN  IF i > Len(S)
        THEN [run |-> [r EXCEPT !.st = "waitFinal", !.pos = i, !.pending = pend, !.failed = FALSE],
              inv |-> inv, started |-> pend]
        ELSE IF f[S[i]] = "throw"
        THEN [run |-> [r EXCEPT !.st = "rejected", !.pos = i, !.pending = pend],
              inv |-> inv \cup {S[i]}, started |-> pend]
        ELSE Scan_NoBarrier(r, i + 1, f, inv \cup {S[i]},
                            IF f[S[i]] = "promise" THEN pend \cup {S[i]} ELSE pend)

\* hookParallel's for loop from index i on, up to its next await.  f says, for each
\* plugin, whether its handler throws synchronously, returns a value, or returns
\* a promise.  inv collects the handlers invoked on the way.
RECURSIVE Scan(_, _, _, _, _)
Scan(r, i, f, inv, pend) ==
    LET S == getSortedPlugins(r.hook)
    IN  IF i > Len(S)
        THEN [run |-> [r EXCEPT !.st = "waitFinal", !.pos = i, !.pending = pend, !.failed = FALSE],
              inv |-> inv, started |-> pend]
        ELSE IF Sequential(S[i], r.hook)
        THEN [run |-> [r EXCEPT !.st = "waitAll", !.pos = i, !.pending = pend, !.failed = FALSE],
              inv |-> inv, started |-> pend]
        ELSE IF f[S[i]] = "throw"
        THEN [run |-> [r EXCEPT !.st = "rejected", !.pos = i, !.pending = pend],
              inv |-> inv \cup {S[i]}, started |-> pend]
        ELSE Scan(r, i + 1, f, inv \cup {S[i]},
                  IF f[S[i]] = "promise" THEN pend \cup {S[i]} ELSE pend)

hookParallel(r, hook, f) == Scan([r EXCEPT !.hook = hook], 1, f, {}, {})

\* The sequential handler of the plugin at r.pos is invoked once
\* Promise.all(parallelPromises) has fulfilled.
InvokeSequential(r, f) ==
    LET p == getSortedPlugins(r.hook)[r.pos]
    IN  IF f[p] = "throw"
        THEN [run |-> [r EXCEPT !.st = "rejected"], inv |-> {p}, started |-> {}]
        ELSE [run |-> [r EXCEPT !.st = "waitSeq", !.pending = {}, !.seqDone = (f[p] = "value")],
              inv |-> {p}, started |-> IF f[p] = "promise" THEN {p} ELSE {}]

\* hookParallel has returned: what its caller does next.
AfterHook(r, f) ==
    IF r.kind = "close" /\ r.hook = "buildEnd"
    THEN hookParallel(r, "closeBundle", f)
    ELSE [run |-> [r EXCEPT !.st = "resolved"], inv |-> {}, started |-> {}]

\* The effect of a segment of run i on the history variables and on processesing:
\* buildStart's hookParallel promise is tracked by handleHookPromise until it settles.
Apply(i, out) ==
    LET threw == IF out.run.st = "rejected" /\ out.inv # {}
                 THEN out.inv \cap {getSortedPlugins(out.run.hook)[out.run.pos]}
                 ELSE {}
        r == [out.run EXCEPT
                !.begun = @ \cup {<<out.run.hook, p>> : p \in out.inv},
                !.fulfilled = @ \cup {<<out.run.hook, p>> : p \in (out.inv \ out.started) \ threw}]
    IN  /\ runs' = IF i > Len(runs) THEN Append(runs, r) ELSE [runs EXCEPT ![i] = r]
        /\ count' = [count EXCEPT ![r.hook] =
                        [p \in Plugins |-> IF p \in out.inv THEN @[p] + 1 ELSE @[p]]]
        /\ running' = running \cup {<<i, r.hook, p>> : p \in out.started}
        /\ lateStart' = lateStart \cup
                           {p \in out.inv : r.hook = "buildStart" /\ count["buildEnd"][p] > 0}
        /\ processesing' =
              IF r.kind # "buildStart" THEN processesing
              ELSE IF r.st \in {"resolved", "rejected"} THEN processesing \ {<<"run", i, 0>>}
              ELSE processesing \cup {<<"run", i, 0>>}

\* One way for the handlers of hook h to behave when invoked.
Modes(h) == {[p \in Plugins |-> IF p \in DOMAIN g THEN g[p] ELSE "value"] :
                g \in [{getSortedPlugins(h)[k] : k \in 1..Len(getSortedPlugins(h))} -> HandlerModes]}

\* container.buildStart()
BuildStartCall ==
    /\ Room
    /\ \E f \in Modes("buildStart") : Apply(Len(runs) + 1, hookParallel(NewRun("buildStart"), "buildStart", f))
    /\ UNCHANGED <<envVars, plugins, recoverable, closed, calls>>

\* container.watchChange(id, change)
WatchChangeCall ==
    /\ Room
    /\ \E f \in Modes("watchChange") : Apply(Len(runs) + 1, hookParallel(NewRun("watchChange"), "watchChange", f))
    /\ UNCHANGED <<envVars, plugins, recoverable, closed, calls>>

\* Variants of close(): one without the early return on a closed container ...
CloseCall_NoEarlyReturn ==
    /\ Room
    /\ Apply(Len(runs) + 1,
             [run |-> [NewRun("close") EXCEPT !.st = "drain", !.first = ~closed,
                                              !.snapshot = processesing],
              inv |-> {}, started |-> {}])
    /\ closed' = TRUE
    /\ UNCHANGED <<envVars, plugins, recoverable, calls>>

\* ... and one of its resumption that does not wait for the snapshot to settle.
CloseDrained_NoWait(i) ==
    /\ runs[i].st = "drain"
    /\ \E f \in Modes("buildEnd") : Apply(i, hookParallel(runs[i], "buildEnd", f))
    /\ UNCHANGED <<envVars, plugins, recoverable, closed, calls>>

\* container.close(): if (closed) return; closed = true;
\* await Promise.allSettled(Array.from(processesing))
CloseCall ==
    /\ Room
    /\ IF closed
       THEN Apply(Len(runs) + 1, [run |-> NewRun("close"), inv |-> {}, started |-> {}])
       ELSE Apply(Len(runs) + 1,
                  [run |-> [NewRun("close") EXCEPT !.st = "drain", !.first = TRUE,
                                                   !.snapshot = processesing],
                   inv |-> {}, started |-> {}])
    /\ closed' = TRUE
    /\ UNCHANGED <<envVars, plugins, recoverable, calls>>

\* close resumes once every promise of its snapshot has settled, and runs buildEnd.
CloseDrained(i) ==
    /\ runs[i].st = "drain"
    /\ runs[i].snapshot \cap processesing = {}
    /\ \E f \in Modes("buildEnd") : Apply(i, hookParallel(runs[i], "buildEnd", f))
    /\ UNCHANGED <<envVars, plugins, recoverable, closed, calls>>

\* The promise a parallel-hook handler returned settles.
ParallelSettle(i, h, p, ok) ==
    /\ <<i, h, p>> \in running
    /\ running' = running \ {<<i, h, p>>}
    /\ runs' = [runs EXCEPT ![i] =
                  LET s == IF ok THEN [@ EXCEPT !.fulfilled = @ \cup {<<h, p>>}] ELSE @
                  IN  IF s.hook # h THEN s
                      ELSE IF s.st = "waitSeq" /\ getSortedPlugins(h)[s.pos] = p
                           THEN IF ok THEN [s EXCEPT !.seqDone = TRUE] ELSE [s EXCEPT !.failed = TRUE]
                      ELSE IF p \in s.pending
                           THEN [s EXCEPT !.pending = @ \ {p}, !.failed = @ \/ ~ok]
                      ELSE s]
    /\ UNCHANGED <<envVars, plugins, recoverable, closed, calls, processesing, count, lateStart>>

\* Run i resumes after the await it was suspended on.
RunResume(i) ==
    /\ \/ /\ runs[i].st \in {"waitAll", "waitFinal"}
          /\ runs[i].failed
          /\ Apply(i, [run |-> [runs[i] EXCEPT !.st = "rejected"], inv |-> {}, started |-> {}])
       \/ /\ runs[i].st = "waitSeq"
          /\ runs[i].failed
          /\ Apply(i, [run |-> [runs[i] EXCEPT !.st = "rejected"], inv |-> {}, started |-> {}])
       \/ /\ runs[i].st = "waitAll"
          /\ ~runs[i].failed /\ runs[i].pending = {}
          /\ \E f \in Modes(runs[i].hook) : Apply(i, InvokeSequential(runs[i], f))
       \/ /\ runs[i].st = "waitSeq"
          /\ ~runs[i].failed /\ runs[i].seqDone
          /\ \E f \in Modes(runs[i].hook) : Apply(i, Scan(runs[i], runs[i].pos + 1, f, {}, {}))
       \/ /\ runs[i].st = "waitFinal"
          /\ ~runs[i].failed /\ runs[i].pending = {}
          /\ \E f \in Modes("closeBundle") : Apply(i, AfterHook(runs[i], f))
    /\ UNCHANGED <<envVars, plugins, recoverable, closed, calls>>

(***************************************************************************)
(* The module graph as far as the 'vite:invalidate' handler reads it.      *)
(***************************************************************************)
Paths == {"/m.js", "/n.js"}
NoModule == [exists |-> FALSE, isSelfAccepting |-> FALSE, lastHMRTimestamp |-> 0,
             lastHMRInvalidationReceived |-> FALSE, importers |-> {}]

GraphIdle ==
    /\ graph = [p \in Paths |-> NoModule]
    /\ hmrLog = <<>>

(***************************************************************************)
(* Source maps of a transform.                                             *)
(***************************************************************************)
NoMap == [kind |-> "null", v |-> <<>>, blank |-> FALSE, str |-> FALSE]      \* null

NewTransformContext == [sourcemapChain |-> <<>>, combinedMap |-> NoMap, pushed |-> 0]

PipeIdle == pipes = <<>>

CtxIdle == ctxLog = <<>>

\* new DevEnvironment(name, config, setup)
NewDevEnvironment ==
    [ initiated |-> FALSE,          \* _initiated
      container |-> FALSE,          \* _pluginContainer is defined
      closing |-> FALSE,            \* _closing
      pendingRequests |-> {},       \* the keys of _pendingRequests
      closeSt |-> "none",           \* close(): "waiting", "resolved", "rejected"
      optimizer |-> FALSE,          \* depsOptimizer is defined
      hotClosed |-> FALSE,          \* hot.close() was called
      cancelled |-> FALSE,          \* _crawlEndFinder.cancel() was called
      containerClose |-> "none",    \* the promise of pluginContainer.close(): "pending", "settled"
      optimizerClose |-> "none",    \* the promise of depsOptimizer.close(): "pending", "settled"
      drained |-> FALSE,            \* the loop over _pendingRequests in close() has ended
      ready |-> FALSE,              \* history: _pluginContainer was defined when close() was called
      resolved |-> 0,               \* history: calls of resolveEnvironmentPlugins
      created |-> 0,                \* history: calls of createEnvironmentPluginContainer
      aborted |-> {},               \* history: requests whose abort callback was called
      atClose |-> {},               \* history: the pending requests when close() was called
      atDone |-> {},                \* history: the pending requests when close() resolved
      accesses |-> {} ]             \* history: <<an init() promise had resolved, the getter threw>>

DevIdle ==
    /\ env = NewDevEnvironment
    /\ inits = <<>>

\* No load or transform call of the module was made yet.
ImpIdle ==
    /\ addedSets = <<>>
    /\ moduleNodeToLoadAddedImports = 0
    /\ loads = <<>>
    /\ transforms = <<>>

MapIdle ==
    /\ tctx = NewTransformContext
    /\ mapLog = [called |-> FALSE, chain |-> <<>>, combined |-> NoMap, ret |-> NoMap,
                 left |-> <<>>, pushes |-> <<>>, at |-> 0]

(***************************************************************************)
(* setupOnCrawlEnd: the crawl-end finder of an environment.  Time is       *)
(* counted in milliseconds; a timer fires when its delay has elapsed.      *)
(***************************************************************************)
callCrawlEndIfIdleAfterMs == 50

TickMs == 25                    \* the longest stretch of time the model lets pass in one step
Ids == {"a", "b", "c"}          \* the request ids of the model
NoId == "none"                  \* ignoredId undefined
NoTimer == -1                   \* no timeout is pending
Never == -1                     \* the registered set has not become empty so far
SinceCap == 2 * callCrawlEndIfIdleAfterMs

NewFinder ==
    [ registeredIds |-> {},
      seenIds |-> {},
      cancelled |-> FALSE,
      crawlEndCalled |-> FALSE,
      timeoutHandle |-> NoTimer,    \* milliseconds left on the pending timeout
      resolved |-> FALSE,           \* onCrawlEndPromiseWithResolvers.promise is resolved
      fired |-> 0 ]                 \* history: invocations of onCrawlEnd

NewCrawlLog ==
    [ firedAfter |-> {},            \* the time since the set emptied, at each invocation
      doneCalls |-> [id \in Ids |-> 0],   \* invocations of done, per id
      removed |-> {},               \* ids deleted from registeredIds
      sinceEmpty |-> Never,         \* time since registeredIds last became empty
      waits |-> {},                 \* <<callback fired before the call, promise resolved at return>>
      again |-> {} ]                \* ids registerRequestProcessing was called with once seen

FinderIdle ==
    /\ finder = NewFinder
    /\ requests = [running |-> {}, blocked |-> {}]
    /\ crawlLog = NewCrawlLog

\* Variants of callOnCrawlEnd: one that does not look at crawlEndCalled, one that
\* leaves the promise alone.
callOnCrawlEnd_EveryTime(f) ==
    IF ~f.cancelled
    THEN [f EXCEPT !.crawlEndCalled = TRUE, !.fired = @ + 1, !.resolved = TRUE]
    ELSE [f EXCEPT !.resolved = TRUE]

callOnCrawlEnd_NoResolve(f) ==
    IF ~f.cancelled /\ ~f.crawlEndCalled
    THEN [f EXCEPT !.crawlEndCalled = TRUE, !.fired = @ + 1]
    ELSE f

\* function callOnCrawlEnd()
callOnCrawlEnd(f) ==
    IF ~f.cancelled /\ ~f.crawlEndCalled
    THEN [f EXCEPT !.crawlEndCalled = TRUE, !.fired = @ + 1, !.resolved = TRUE]
    ELSE [f EXCEPT !.resolved = TRUE]

\* A variant of callOnCrawlEndWhenIdle that does not look at registeredIds.
callOnCrawlEndWhenIdle_Busy(f) ==
    IF f.cancelled THEN f ELSE callOnCrawlEnd(f)

\* A variant of callOnCrawlEndWhenIdle that does not look at cancelled.
callOnCrawlEndWhenIdle_Cancelled(f) ==
    IF f.registeredIds # {} THEN f ELSE callOnCrawlEnd(f)

\* async function callOnCrawlEndWhenIdle()
callOnCrawlEndWhenIdle(f) ==
    IF f.cancelled \/ f.registeredIds # {} THEN f ELSE callOnCrawlEnd(f)

\* A variant of checkIfCrawlEndAfterTimeout that lets a pending timeout run on.
checkIfCrawlEndAfterTimeout_NoRestart(f) ==
    IF f.cancelled \/ f.registeredIds # {} \/ f.timeoutHandle # NoTimer THEN f
    ELSE [f EXCEPT !.timeoutHandle = callCrawlEndIfIdleAfterMs]

\* function checkIfCrawlEndAfterTimeout(): clearTimeout, then setTimeout
checkIfCrawlEndAfterTimeout(f) ==
    IF f.cancelled \/ f.registeredIds # {} THEN f
    ELSE [f EXCEPT !.timeoutHandle = callCrawlEndIfIdleAfterMs]

\* function markIdAsDone(id)
markIdAsDone(f, id) ==
    IF id \in f.registeredIds
    THEN checkIfCrawlEndAfterTimeout([f EXCEPT !.registeredIds = @ \ {id}])
    ELSE f

\* What a step that takes the finder from f to g adds to the history.
Logged(f, g) ==
    [crawlLog EXCEPT
        !.firedAfter = IF g.fired > f.fired
                       THEN @ \cup {crawlLog.sinceEmpty} ELSE @,
        !.removed = @ \cup (f.registeredIds \ g.registeredIds),
        !.sinceEmpty = IF f.registeredIds # {} /\ g.registeredIds = {} THEN 0 ELSE @]

\* A variant of registerRequestProcessing that looks the id up in registeredIds.
RegisterRequestProcessing_ByRegistered(id) ==
    /\ IF id \notin finder.registeredIds
       THEN /\ finder' = [finder EXCEPT !.seenIds = @ \cup {id}, !.registeredIds = @ \cup {id}]
            /\ requests' = [requests EXCEPT !.running = @ \cup {id}]
            /\ crawlLog' = [crawlLog EXCEPT !.doneCalls[id] = @ + 1]
       ELSE /\ crawlLog' = [crawlLog EXCEPT !.again = @ \cup {id}]
            /\ UNCHANGED <<finder, requests>>
    /\ UNCHANGED offFinder

\* registerRequestProcessing(id, done)
RegisterRequestProcessing(id) ==
    /\ IF id \notin finder.seenIds
       THEN /\ finder' = [finder EXCEPT !.seenIds = @ \cup {id}, !.registeredIds = @ \cup {id}]
            /\ requests' = [requests EXCEPT !.running = @ \cup {id}]
            /\ crawlLog' = [crawlLog EXCEPT !.doneCalls[id] = @ + 1]
       ELSE /\ crawlLog' = [crawlLog EXCEPT !.again = @ \cup {id}]
            /\ UNCHANGED <<finder, requests>>
    /\ UNCHANGED offFinder

\* The promise done() returned settles: .catch(() => {}).finally(() => markIdAsDone(id)).
\* A processing that waits for the idle promise settles only once that is resolved.
DoneSettle(id) ==
    /\ id \in requests.running
    /\ id \in requests.blocked => finder.resolved
    /\ requests' = [requests EXCEPT !.running = @ \ {id}]
    /\ finder' = markIdAsDone(finder, id)
    /\ crawlLog' = Logged(finder, finder')
    /\ UNCHANGED offFinder

\* A variant of waitForRequestsIdle that makes no use of ignoredId.
waitForRequestsIdle_NoIgnore(f, ignoredId) == f

\* waitForRequestsIdle(ignoredId)
waitForRequestsIdle(f, ignoredId) ==
    IF ignoredId # NoId
    THEN markIdAsDone([f EXCEPT !.seenIds = @ \cup {ignoredId}], ignoredId)
    ELSE f

\* waitForRequestsIdle is called from outside any registered processing.
WaitForRequestsIdle(ignoredId) ==
    /\ finder' = waitForRequestsIdle(finder, ignoredId)
    /\ crawlLog' = [Logged(finder, finder') EXCEPT
                       !.waits = @ \cup {<<finder.fired > 0, finder.resolved>>}]
    /\ UNCHANGED <<requests, offFinder>>

\* The processing of request id calls waitForRequestsIdle(id) and awaits the promise.
WaitForIdleInside(id) ==
    /\ id \in requests.running \ requests.blocked
    /\ finder' = waitForRequestsIdle(finder, id)
    /\ requests' = [requests EXCEPT !.blocked = @ \cup {id}]
    /\ crawlLog' = [Logged(finder, finder') EXCEPT
                       !.waits = @ \cup {<<finder.fired > 0, finder.resolved>>}]
    /\ UNCHANGED offFinder

\* cancel()
Cancel ==
    /\ ~finder.cancelled
    /\ finder' = [finder EXCEPT !.cancelled = TRUE]
    /\ UNCHANGED <<requests, crawlLog, offFinder>>

\* The pending timeout comes due and runs callOnCrawlEndWhenIdle.
TimerFire ==
    /\ finder.timeoutHandle = 0
    /\ finder' = callOnCrawlEndWhenIdle([finder EXCEPT !.timeoutHandle = NoTimer])
    /\ crawlLog' = Logged(finder, finder')
    /\ UNCHANGED <<requests, offFinder>>

\* Time passes, up to the moment the pending timeout comes due.
Tick ==
    LET d == IF finder.timeoutHandle # NoTimer /\ finder.timeoutHandle < TickMs
             THEN finder.timeoutHandle ELSE TickMs
    IN  /\ finder.timeoutHandle # 0
        /\ finder.timeoutHandle # NoTimer \/ crawlLog.sinceEmpty \notin {Never, SinceCap}
        /\ finder' = [finder EXCEPT !.timeoutHandle = IF @ = NoTimer THEN @ ELSE @ - d]
        /\ crawlLog' = [crawlLog EXCEPT
                           !.sinceEmpty = IF @ = Never THEN @
                                          ELSE IF @ + d > SinceCap THEN SinceCap ELSE @ + d]
        /\ UNCHANGED <<requests, offFinder>>

\* A fresh container that nothing calls: the finder runs on its own.
ContainerIdle ==
    /\ plugins = <<>>
    /\ recoverable = FALSE
    /\ closed = FALSE
    /\ processesing = {}
    /\ calls = <<>>
    /\ runs = <<>>
    /\ count = [h \in ParallelHooks |-> [p \in Plugins |-> 0]]
    /\ running = {}
    /\ lateStart = {}

InitCrawl == FinderIdle /\ GraphIdle /\ MapIdle /\ PipeIdle /\ CtxIdle /\ DevIdle /\ ImpIdle /\ ContainerIdle

CrawlNext ==
    \/ \E id \in Ids : RegisterRequestProcessing(id)
    \/ \E id \in Ids : DoneSettle(id)
    \/ \E ig \in Ids \cup {NoId} : WaitForRequestsIdle(ig)
    \/ \E id \in Ids : WaitForIdleInside(id)
    \/ Cancel
    \/ TimerFire
    \/ Tick

\* The crawl-end finder under registrations, completions, waits, cancel and time.
SpecCrawl == InitCrawl /\ [][CrawlNext]_vars

\* The same where time goes on, a due timeout runs, and a request processing that
\* is not waiting for the idle promise settles in the end.
SpecCrawlFair ==
    /\ SpecCrawl
    /\ WF_vars(Tick)
    /\ WF_vars(TimerFire)
    /\ \A id \in Ids : WF_vars(DoneSettle(id))

(***************************************************************************)
(* The 'vite:invalidate' listener of a DevEnvironment.                     *)
(***************************************************************************)
MaxEvents == 3

Timestamps == {100, 200}
NoCall == [called |-> FALSE, modules |-> {}, timestamp |-> 0, afterInvalidation |-> FALSE]

ModuleNodes ==
    {NoModule} \cup
    [exists : {TRUE}, isSelfAccepting : BOOLEAN, lastHMRTimestamp : {0, 100},
     lastHMRInvalidationReceived : BOOLEAN, importers : {{}, {"i1"}}]

\* A variant of invalidateModule that does not look at the flag.
invalidateModule_NoFlag(g, path) ==
    LET mod == g[path] IN
    IF mod.exists /\ mod.isSelfAccepting /\ mod.lastHMRTimestamp > 0
    THEN [graph |-> [g EXCEPT ![path].lastHMRInvalidationReceived = TRUE],
          call |-> [called |-> TRUE, modules |-> mod.importers,
                    timestamp |-> mod.lastHMRTimestamp, afterInvalidation |-> TRUE]]
    ELSE [graph |-> g, call |-> NoCall]

\* invalidateModule(environment, {path}): the graph after it and the
\* updateModules call it made, if any.
invalidateModule(g, path) ==
    LET mod == g[path] IN
    IF mod.exists /\ mod.isSelfAccepting /\ mod.lastHMRTimestamp > 0
       /\ ~mod.lastHMRInvalidationReceived
    THEN [graph |-> [g EXCEPT ![path].lastHMRInvalidationReceived = TRUE],
          call |-> [called |-> TRUE, modules |-> mod.importers,
                    timestamp |-> mod.lastHMRTimestamp, afterInvalidation |-> TRUE]]
    ELSE [graph |-> g, call |-> NoCall]

\* hot.on('vite:invalidate', ({path}) => invalidateModule(this, {path}))
Invalidate(path) ==
    /\ Len(hmrLog) < MaxEvents
    /\ LET out == invalidateModule(graph, path) IN
        /\ graph' = out.graph
        /\ hmrLog' = Append(hmrLog, [ev |-> "invalidate", path |-> path, before |-> graph,
                                     after |-> out.graph, call |-> out.call])
    /\ UNCHANGED offHmr

\* The module graph starts a new HMR wave for a module: a new timestamp and
\* the flag reset.
ModuleUpdated(path, ts) ==
    /\ Len(hmrLog) < MaxEvents
    /\ graph[path].exists
    /\ graph' = [graph EXCEPT ![path].lastHMRTimestamp = ts,
                              ![path].lastHMRInvalidationReceived = FALSE]
    /\ hmrLog' = Append(hmrLog, [ev |-> "update", path |-> path, before |-> graph,
                                 after |-> graph', call |-> NoCall])
    /\ UNCHANGED offHmr

InitHmr ==
    /\ graph \in [Paths -> ModuleNodes]
    /\ hmrLog = <<>>
    /\ FinderIdle /\ MapIdle /\ PipeIdle /\ CtxIdle /\ DevIdle /\ ImpIdle /\ ContainerIdle

HmrNext ==
    \/ \E path \in Paths : Invalidate(path)
    \/ \E path \in Paths, ts \in Timestamps : ModuleUpdated(path, ts)

SpecHmr == InitHmr /\ [][HmrNext]_vars

(***************************************************************************)
(* TransformContext: the chain of source maps of one transform and its     *)
(* collapsed form.  A map is a record: kind "valid" (it has a version      *)
(* field; v lists the stages it maps through, blank says its one source    *)
(* is empty), "sentinel" ({mappings: ''}), "nullified" (no version field   *)
(* and mappings other than ''), "null"; str says the chain member is the   *)
(* JSON text of the map.                                                   *)
(***************************************************************************)
MaxMaps == 3

Valid(name, blank) == [kind |-> "valid", v |-> <<name>>, blank |-> blank, str |-> FALSE]
Sentinel == [kind |-> "sentinel", v |-> <<>>, blank |-> FALSE, str |-> FALSE]
Nullified == [kind |-> "nullified", v |-> <<>>, blank |-> FALSE, str |-> FALSE]
Json(m) == [m EXCEPT !.str = TRUE]

\* What a plugin's transform may return as result.map (a truthy value).
ReturnedMaps ==
    {Valid("x", FALSE), Valid("y", TRUE), Json(Valid("z", FALSE)),
     Sentinel, Json(Sentinel), Nullified}

\* if (typeof m === 'string') m = JSON.parse(m)
Parse(m) == [m EXCEPT !.str = FALSE]
HasVersion(m) == m.kind = "valid"
IsSentinel(m) == ~HasVersion(m) /\ m.kind = "sentinel"

\* combineSourcemaps(filename, [m, combinedMap]): m applied after combinedMap.
combineSourcemaps(m, combinedMap) ==
    [kind |-> "valid", v |-> combinedMap.v \o m.v, blank |-> combinedMap.blank, str |-> FALSE]

\* A variant of the loop that takes every map without version for a
\* nullified one.
RECURSIVE CollapseFrom_NoSentinel(_, _, _)
CollapseFrom_NoSentinel(chain, k, combinedMap) ==
    IF k > Len(chain) THEN combinedMap
    ELSE LET m == Parse(chain[k]) IN
         IF ~HasVersion(m)
         THEN NoMap
         ELSE IF combinedMap.kind = "null"
              THEN CollapseFrom_NoSentinel(chain, k + 1, [m EXCEPT !.blank = FALSE])
              ELSE CollapseFrom_NoSentinel(chain, k + 1, combineSourcemaps(m, combinedMap))

\* The loop of _getCombinedSourcemap over the chain from member k on.
RECURSIVE CollapseFrom(_, _, _)
CollapseFrom(chain, k, combinedMap) ==
    IF k > Len(chain) THEN combinedMap
    ELSE LET m == Parse(chain[k]) IN
         IF ~HasVersion(m)
         THEN IF m.kind = "sentinel" THEN Sentinel ELSE NoMap
         ELSE IF combinedMap.kind = "null"
              THEN CollapseFrom(chain, k + 1, [m EXCEPT !.blank = FALSE])
              ELSE CollapseFrom(chain, k + 1, combineSourcemaps(m, combinedMap))

\* _getCombinedSourcemap(): the context after the call and the map returned.
\* The loop's result is the object this.combinedMap only if the chain was
\* empty or both are null.
_getCombinedSourcemap(t) ==
    IF IsSentinel(t.combinedMap)
    THEN [ctx |-> [t EXCEPT !.sourcemapChain = <<>>], ret |-> t.combinedMap]
    ELSE LET combinedMap == CollapseFrom(t.sourcemapChain, 1, t.combinedMap)
             same == \/ Len(t.sourcemapChain) = 0
                     \/ combinedMap.kind = "null" /\ t.combinedMap.kind = "null"
         IN  IF same
             THEN [ctx |-> t, ret |-> t.combinedMap]
             ELSE [ctx |-> [t EXCEPT !.combinedMap = combinedMap, !.sourcemapChain = <<>>],
                   ret |-> combinedMap]

\* new TransformContext(id, code, inMap) with an inMap, and transform()
\* pushing a handler's result.map.
PushMap(m) ==
    /\ tctx.pushed < MaxMaps
    /\ tctx' = [tctx EXCEPT !.sourcemapChain = Append(@, m), !.pushed = @ + 1]
    /\ mapLog' = [mapLog EXCEPT !.pushes = Append(@, m)]
    /\ UNCHANGED offMap

\* A call of _getCombinedSourcemap: by a handler through
\* this.getCombinedSourcemap(), or by transform() at its end.
GetCombinedSourcemap ==
    /\ LET out == _getCombinedSourcemap(tctx) IN
        /\ tctx' = out.ctx
        /\ mapLog' = [called |-> TRUE, chain |-> tctx.sourcemapChain,
                      combined |-> tctx.combinedMap, ret |-> out.ret,
                      left |-> out.ctx.sourcemapChain, pushes |-> mapLog.pushes,
                      at |-> Len(mapLog.pushes)]
    /\ UNCHANGED offMap

InitMap == MapIdle /\ FinderIdle /\ GraphIdle /\ PipeIdle /\ CtxIdle /\ DevIdle /\ ImpIdle /\ ContainerIdle

MapNext ==
    \/ \E m \in ReturnedMaps : PushMap(m)
    \/ GetCombinedSourcemap

SpecMap == InitMap /\ [][MapNext]_vars

(***************************************************************************)
(* Errors of transform handlers: formatError, the catch of                 *)
(* container.transform, and a transform nested in another one through      *)
(* this.load.  Code is a sequence of characters here.  A field an error    *)
(* does not have is NullStr (plugin: NoPlugin, pos: NoPos, loc: NoLoc).    *)
(***************************************************************************)
MaxDepth == 2

NoPos == -1
NoLoc == [file |-> NullStr, line |-> 0, column |-> 0]
NoErr == [thrown |-> FALSE, plugin |-> NoPlugin, id |-> NullStr, pluginCode |-> NullStr,
          pos |-> NoPos, loc |-> NoLoc]
Boom == [NoErr EXCEPT !.thrown = TRUE]

Abcdef == <<"a", "b", "c", "d", "e", "f">>
TwoLines == <<"a", "b", "\n", "c", "d">>
Codes == {Abcdef, TwoLines, <<>>}
FileX == <<"/x.js">>
FileY == <<"/y.js">>

\* What a transform handler may throw: an error with no field, with an offset
\* inside every non-empty code, with an offset past every code, with an id.
RawErrors ==
    {Boom, [Boom EXCEPT !.pos = 3], [Boom EXCEPT !.pos = 9], [Boom EXCEPT !.id = <<"/dep.css">>]}

\* The position where a combined source map says a location came from.
TracedLoc == [file |-> <<"/x.ts">>, line |-> 7, column |-> 0]

\* A string that is neither null nor empty.
Truthy(str) == str # NullStr /\ str # <<>>

\* numberToPos(source, offset) for offset <= source.length: line from 1,
\* column from 0.
LineBreaks(source, offset) == {k \in 1..offset : source[k] = "\n"}
numberToPos(source, offset) ==
    [line |-> 1 + Cardinality(LineBreaks(source, offset)),
     column |-> IF LineBreaks(source, offset) = {} THEN offset
                ELSE offset - Max(LineBreaks(source, offset))]

\* formatError(e, position, ctx): the error it returns or throws.  traced says
\* whether originalPositionFor finds the location in the combined map.
formatError(e, position, ctx, traced) ==
    IF Truthy(e.pluginCode) THEN e
    ELSE
    LET e1 == [e EXCEPT !.plugin = IF ctx.active # NoPlugin THEN ctx.active ELSE @,
                        !.id = IF Truthy(ctx.activeId) /\ ~Truthy(e.id) THEN ctx.activeId ELSE @]
        pos == IF position # NoPos THEN position ELSE e.pos
        rawSourceMap == _getCombinedSourcemap(ctx.maps).ret
    IN  IF ~Truthy(ctx.activeCode) THEN e1
        ELSE LET e2 == [e1 EXCEPT !.pluginCode = ctx.activeCode] IN
             IF pos = NoPos THEN e2
             ELSE IF pos > Len(ctx.activeCode) THEN e2
             ELSE LET at == numberToPos(ctx.activeCode, pos)
                      e3 == [e2 EXCEPT !.loc = IF @ # NoLoc THEN @
                                                ELSE [file |-> e2.id, line |-> at.line,
                                                      column |-> at.column]]
                  IN  IF HasVersion(rawSourceMap) /\ traced
                      THEN [e3 EXCEPT !.loc = TracedLoc]
                      ELSE e3

\* The context and the position of one container.transform call.
NewPipe(code, id, inMap, parent) ==
    [ id |-> id,
      code |-> code,            \* the local variable code
      parent |-> parent,        \* the call whose handler reached this one through this.load, or 0
      pos |-> 0,                \* index in getSortedPlugins("transform") of the plugin visited
      st |-> "loop",            \* "await", "returned", "thrown"
      active |-> NoPlugin,      \* ctx._activePlugin
      activeId |-> NullStr,     \* ctx._activeId
      activeCode |-> NullStr,   \* ctx._activeCode
      maps |-> [NewTransformContext EXCEPT
                    !.sourcemapChain = IF inMap = NoMap THEN <<>> ELSE <<inMap>>],
      err |-> NoErr,            \* what the call rejected with
      raw |-> NoErr,            \* history: the error as the handler threw it
      by |-> NoPlugin,          \* history: the plugin whose handler threw it
      at |-> NullStr,           \* history: the id that handler was transforming
      input |-> NullStr,        \* history: the code that handler received
      traced |-> FALSE,         \* history: the combined map located the error
      passed |-> NoErr ]        \* history: the error a nested call handed to the catch

\* The for loop of transform from the top.
PipeLoop(c) ==
    LET S == getSortedPlugins("transform") IN
    IF c.pos >= Len(S)
    THEN [c EXCEPT !.st = "returned"]
    ELSE [c EXCEPT !.pos = @ + 1, !.st = "await", !.active = S[c.pos + 1],
                   !.activeId = c.id, !.activeCode = c.code]

\* The call of pipe i that this.load made and that has not finished, if any.
Child(i) == {j \in 1..Len(pipes) : pipes[j].parent = i /\ pipes[j].st = "await"}

\* container.transform(code, id, {inMap}) is called from outside.
PipeStart(code, id, inMap) ==
    /\ pipes = <<>>
    /\ pipes' = <<PipeLoop(NewPipe(code, id, inMap, 0))>>
    /\ UNCHANGED offPipe

\* The handler of pipe i calls this.load({id}); container.load gives code, and
\* container.transform(code, id) starts inside the handler.
PipeLoad(i, code, id) ==
    /\ Len(pipes) < MaxDepth
    /\ pipes[i].st = "await"
    /\ \A j \in 1..Len(pipes) : pipes[j].parent # i
    /\ pipes' = Append(pipes, PipeLoop(NewPipe(code, id, NoMap, i)))
    /\ UNCHANGED offPipe

\* The handler of pipe i returns r: nothing, a string, or an object with code
\* and a map.
PipeReturn(i, r, m) ==
    /\ pipes[i].st = "await"
    /\ Child(i) = {}
    /\ LET c == pipes[i]
           d == CASE r = NullStr \/ r = <<>> -> c
                  [] m = NoMap -> [c EXCEPT !.code = r]
                  [] OTHER -> [c EXCEPT !.code = r,
                                        !.maps.sourcemapChain = Append(@, m)]
       IN  pipes' = [pipes EXCEPT ![i] = PipeLoop(d)]
    /\ UNCHANGED offPipe

\* The handler of pipe i throws e: catch (e) { ctx.error(e) }.
PipeThrow(i, e, traced) ==
    /\ pipes[i].st = "await"
    /\ Child(i) = {}
    /\ LET c == pipes[i] IN
       pipes' = [pipes EXCEPT ![i] =
                    [c EXCEPT !.st = "thrown",
                              !.err = formatError(e, NoPos, c, traced),
                              !.raw = e, !.by = c.active, !.at = c.id, !.input = c.code,
                              !.traced = traced]]
    /\ UNCHANGED offPipe

\* The transform that this.load started in the handler of pipe i rejected, and
\* the handler lets the rejection through: the catch of pipe i gets that error.
PipeRethrow(i, j, traced) ==
    /\ pipes[i].st = "await"
    /\ pipes[j].parent = i
    /\ pipes[j].st = "thrown"
    /\ LET c == pipes[i]
           n == pipes[j]
       IN  pipes' = [pipes EXCEPT ![i] =
                        [c EXCEPT !.st = "thrown",
                                  !.err = formatError(n.err, NoPos, c, traced),
                                  !.raw = n.raw, !.by = n.by, !.at = n.at, !.input = n.input,
                                  !.traced = traced, !.passed = n.err]]
    /\ UNCHANGED offPipe

\* What a transform handler may return: nothing, a string, an object with a map.
HandlerReturns == {<<NullStr, NoMap>>, <<TwoLines, NoMap>>, <<Abcdef, Valid("x", FALSE)>>}

InitPipe ==
    /\ FinderIdle /\ GraphIdle /\ MapIdle /\ PipeIdle /\ CtxIdle /\ DevIdle /\ ImpIdle
    /\ plugins = <<"A", "B">>
    /\ recoverable = FALSE
    /\ closed = FALSE
    /\ processesing = {}
    /\ calls = <<>>
    /\ runs = <<>>
    /\ count = [h \in ParallelHooks |-> [p \in Plugins |-> 0]]
    /\ running = {}
    /\ lateStart = {}

PipeNext ==
    \/ \E code \in Codes, inMap \in {NoMap, Valid("in", FALSE)} : PipeStart(code, FileX, inMap)
    \/ \E i \in 1..Len(pipes), code \in {TwoLines, <<>>} : PipeLoad(i, code, FileY)
    \/ \E i \in 1..Len(pipes), out \in HandlerReturns : PipeReturn(i, out[1], out[2])
    \/ \E i \in 1..Len(pipes), e \in RawErrors, traced \in BOOLEAN : PipeThrow(i, e, traced)
    \/ \E i, j \in 1..Len(pipes), traced \in BOOLEAN : PipeRethrow(i, j, traced)

\* transform calls on an open container whose handlers may throw and may load
\* another module.
SpecPipe == InitPipe /\ [][PipeNext]_vars

(***************************************************************************)
(* The context a handler runs on, and the methods of Context that serve    *)
(* mode does not support.                                                  *)
(***************************************************************************)
MaxCtxCalls == 2

AllHooks == {"resolveId", "load", "transform", "buildStart", "watchChange", "buildEnd",
             "closeBundle"}
ContextMethods == {"emitFile", "setAssetSource", "getFileName"}

\* ctx._activePlugin while the handler of plugin for hook runs: resolveId, load
\* and transform assign it before the call, buildStart makes new Context(plugin),
\* watchChange and close make new Context().
ActivePlugin(hook, plugin) ==
    IF hook \in {"resolveId", "load", "transform", "buildStart"} THEN plugin ELSE NoPlugin

\* emitFile / setAssetSource / getFileName on a context whose _activePlugin is
\* active: warnIncompatibleMethod(method, this._activePlugin!.name), return ''.
ContextMethod(method, active) ==
    IF active = NoPlugin
    THEN [threw |-> TRUE, warned |-> NoPlugin, ret |-> NullStr]
    ELSE [threw |-> FALSE, warned |-> active,
          ret |-> IF method = "setAssetSource" THEN NullStr ELSE <<>>]

\* The handler of plugin for hook calls method on its context.
CtxCall(hook, plugin, method) ==
    /\ Len(ctxLog) < MaxCtxCalls
    /\ \E k \in 1..Len(getSortedPlugins(hook)) : getSortedPlugins(hook)[k] = plugin
    /\ ctxLog' = Append(ctxLog, [hook |-> hook, plugin |-> plugin, method |-> method,
                                 out |-> ContextMethod(method, ActivePlugin(hook, plugin))])
    /\ UNCHANGED offCtx

InitCtx ==
    /\ FinderIdle /\ GraphIdle /\ MapIdle /\ PipeIdle /\ CtxIdle /\ DevIdle /\ ImpIdle
    /\ plugins = <<"P", "Q">>
    /\ recoverable = FALSE
    /\ closed = FALSE
    /\ processesing = {}
    /\ calls = <<>>
    /\ runs = <<>>
    /\ count = [h \in ParallelHooks |-> [p \in Plugins |-> 0]]
    /\ running = {}
    /\ lateStart = {}

CtxNext ==
    \E hook \in AllHooks, plugin \in Plugins, method \in ContextMethods :
        CtxCall(hook, plugin, method)

\* Handlers of every hook calling the unsupported context methods.
SpecCtx == InitCtx /\ [][CtxNext]_vars

(***************************************************************************)
(* DevEnvironment: init(), the pluginContainer getter, the pending         *)
(* requests and close().                                                   *)
(***************************************************************************)
MaxInits == 2

RequestUrls == {"/a.js", "/b.js"}

\* init() is called: if (this._initiated) return; this._initiated = true;
\* await resolveEnvironmentPlugins(this)
InitCall ==
    /\ Len(inits) < MaxInits
    /\ IF env.initiated
       THEN /\ inits' = Append(inits, "resolved")
            /\ UNCHANGED env
       ELSE /\ inits' = Append(inits, "resolving")
            /\ env' = [env EXCEPT !.initiated = TRUE, !.resolved = @ + 1]
    /\ UNCHANGED offDev

\* resolveEnvironmentPlugins settles: this._plugins is assigned and
\* createEnvironmentPluginContainer is called, or init() rejects.
PluginsResolved(i, ok) ==
    /\ inits[i] = "resolving"
    /\ IF ok
       THEN /\ inits' = [inits EXCEPT ![i] = "creating"]
            /\ env' = [env EXCEPT !.created = @ + 1]
       ELSE /\ inits' = [inits EXCEPT ![i] = "rejected"]
            /\ UNCHANGED env
    /\ UNCHANGED offDev

\* createEnvironmentPluginContainer settles: this._pluginContainer is assigned
\* and init() resolves, or init() rejects.
ContainerCreated(i, ok) ==
    /\ inits[i] = "creating"
    /\ IF ok
       THEN /\ inits' = [inits EXCEPT ![i] = "resolved"]
            /\ env' = [env EXCEPT !.container = TRUE]
       ELSE /\ inits' = [inits EXCEPT ![i] = "rejected"]
            /\ UNCHANGED env
    /\ UNCHANGED offDev

\* get pluginContainer(): throws when _pluginContainer is not defined
GetPluginContainer ==
    /\ env' = [env EXCEPT !.accesses = @ \cup
                  {<<\E i \in 1..Len(inits) : inits[i] = "resolved", ~env.container>>}]
    /\ UNCHANGED <<inits, offDev>>

\* A transform request for url starts and is entered in _pendingRequests;
\* the _closing flag keeps new work out.
RequestStart(url) ==
    /\ ~env.closing
    /\ url \notin env.pendingRequests
    /\ env' = [env EXCEPT !.pendingRequests = @ \cup {url}]
    /\ UNCHANGED <<inits, offDev>>

\* The request for url settles and leaves _pendingRequests.
RequestSettle(url) ==
    /\ url \in env.pendingRequests
    /\ env' = [env EXCEPT !.pendingRequests = @ \ {url}]
    /\ UNCHANGED <<inits, offDev>>

\* A variant of the loop in close() that does not wait.
RequestsSettled_NoWait(e) == TRUE

\* while (this._pendingRequests.size > 0) await Promise.allSettled(requests):
\* the loop is left once the map is empty.
RequestsSettled(e) == e.pendingRequests = {}

\* close(): _closing = true; hot.close(); _crawlEndFinder.cancel(); then the
\* getter of pluginContainer, which throws before init; pluginContainer.close()
\* and depsOptimizer?.close() are called, the loop over the pending requests
\* starts, and close() awaits the three.
DevClose ==
    /\ env.closeSt = "none"
    /\ env' = [env EXCEPT
                  !.closing = TRUE,
                  !.hotClosed = TRUE,
                  !.cancelled = TRUE,
                  !.atClose = env.pendingRequests,
                  !.ready = env.container,
                  !.closeSt = IF env.container THEN "waiting" ELSE "rejected",
                  !.containerClose = IF env.container THEN "pending" ELSE @,
                  !.optimizerClose = IF env.container /\ env.optimizer THEN "pending" ELSE @,
                  !.drained = env.container /\ RequestsSettled(env)]
    /\ UNCHANGED <<inits, offDev>>

\* The promise of pluginContainer.close() settles, fulfilled or rejected.
ContainerCloseSettle ==
    /\ env.containerClose = "pending"
    /\ env' = [env EXCEPT !.containerClose = "settled"]
    /\ UNCHANGED <<inits, offDev>>

\* The promise of depsOptimizer.close() settles, fulfilled or rejected.
OptimizerCloseSettle ==
    /\ env.optimizerClose = "pending"
    /\ env' = [env EXCEPT !.optimizerClose = "settled"]
    /\ UNCHANGED <<inits, offDev>>

\* The loop over _pendingRequests resumes and finds the map empty.
RequestsDrained ==
    /\ env.closeSt = "waiting"
    /\ ~env.drained
    /\ RequestsSettled(env)
    /\ env' = [env EXCEPT !.drained = TRUE]
    /\ UNCHANGED <<inits, offDev>>

\* A variant of the await in close() that goes on when one of the three
\* promises has settled.
AllSettled_Race(e) ==
    e.drained \/ e.containerClose = "settled" \/ e.optimizerClose = "settled"

\* Promise.allSettled([pluginContainer.close(), depsOptimizer?.close(), loop]):
\* undefined, where there is no optimizer, counts as settled.
AllSettled(e) ==
    e.drained /\ e.containerClose = "settled" /\ e.optimizerClose # "pending"

\* close() resolves.
DevCloseDone ==
    /\ env.closeSt = "waiting"
    /\ AllSettled(env)
    /\ env' = [env EXCEPT !.closeSt = "resolved", !.atDone = env.pendingRequests]
    /\ UNCHANGED <<inits, offDev>>

\* An environment with or without a deps optimizer.
InitDev ==
    /\ FinderIdle /\ GraphIdle /\ MapIdle /\ PipeIdle /\ CtxIdle /\ ImpIdle /\ ContainerIdle
    /\ env \in {[NewDevEnvironment EXCEPT !.optimizer = o] : o \in BOOLEAN}
    /\ inits = <<>>

DevNext ==
    \/ InitCall
    \/ \E i \in 1..Len(inits), ok \in BOOLEAN : PluginsResolved(i, ok)
    \/ \E i \in 1..Len(inits), ok \in BOOLEAN : ContainerCreated(i, ok)
    \/ GetPluginContainer
    \/ \E url \in RequestUrls : RequestStart(url)
    \/ \E url \in RequestUrls : RequestSettle(url)
    \/ DevClose
    \/ ContainerCloseSettle
    \/ OptimizerCloseSettle
    \/ RequestsDrained
    \/ DevCloseDone

\* An environment under init() calls, requests, accesses and close().
SpecDev == InitDev /\ [][DevNext]_vars

\* The same, where the task that resumes close() is run when it is ready and
\* every pending request settles.
SpecDevFair ==
    /\ SpecDev
    /\ WF_vars(RequestsDrained)
    /\ WF_vars(DevCloseDone)
    /\ \A url \in RequestUrls : WF_vars(RequestSettle(url))

(***************************************************************************)
(* The added imports of a module: container.load records the Set its       *)
(* context collected through addWatchFile on the module node, and the      *)
(* context of a later container.transform of the module takes it over.     *)
(* One module id is followed; it has a node in the module graph.  A Set    *)
(* object is a reference into addedSets, so that two contexts holding the  *)
(* same object see each other's additions.                                 *)
(***************************************************************************)

\* Bounds: the load and transform calls made for the module, together, and
\* how many of them are in flight at once.
MaxImpCalls == 3
MaxInFlight == 2

\* The calls of a sequence that have not ended.
InFlight(cs) == Cardinality({i \in 1..Len(cs) : cs[i].st = "running"})

\* The files a handler may pass to addWatchFile.
WatchedFiles == {"x.css", "y.css"}

\* The content of the Set behind a reference; null reads as no file.
AddedImports(ref, sets) == IF ref = 0 THEN {} ELSE sets[ref]

\* addWatchFile(f) on a context whose _addedImports is ref: a new Set is
\* made when the context has none.  Gives <<_addedImports, the Set objects>>.
addWatchFile(ref, f, sets) ==
    IF ref = 0
    THEN <<Len(sets) + 1, Append(sets, {f})>>
    ELSE <<ref, [sets EXCEPT ![ref] = @ \cup {f}]>>

\* How many load calls have returned (normally) so far.
Returned(ls) == Cardinality({i \in 1..Len(ls) : ls[i].st = "returned"})

\* The load call that returned last, 0 when none has.
LastLoad(ls) ==
    IF Returned(ls) = 0 THEN 0
    ELSE CHOOSE i \in 1..Len(ls) : ls[i].st = "returned" /\ ls[i].order = Returned(ls)

\* container.load(id): a new Context, and the first load handler is called.
ContainerLoad ==
    /\ Len(loads) + Len(transforms) < MaxImpCalls
    /\ InFlight(loads) + InFlight(transforms) < MaxInFlight
    /\ ~(closed /\ recoverable)
    /\ loads' = Append(loads, [st |-> "running", plugin |-> 1, addedImports |-> 0,
                               added |-> {}, order |-> 0])
    /\ UNCHANGED <<addedSets, moduleNodeToLoadAddedImports, transforms, offImp>>

\* The running load handler of call i calls this.addWatchFile(f).
LoadAddWatchFile(i, f) ==
    /\ loads[i].st = "running"
    /\ f \notin loads[i].added
    /\ LET r == addWatchFile(loads[i].addedImports, f, addedSets) IN
        /\ addedSets' = r[2]
        /\ loads' = [loads EXCEPT ![i].addedImports = r[1], ![i].added = @ \cup {f}]
    /\ UNCHANGED <<moduleNodeToLoadAddedImports, transforms, offImp>>

\* The load handler of call i settles with r: a result ends the call, null
\* moves on to the next plugin, and after the last plugin the call returns
\* null; on both returns the context's Set is recorded on the module node.
\* A handler that throws ends the call without recording.  The context of
\* a call that ended is dropped.
LoadSettle(i, r) ==
    /\ loads[i].st = "running"
    /\ IF r = "throw"
       THEN /\ loads' = [loads EXCEPT ![i].st = "threw", ![i].plugin = 0,
                                       ![i].addedImports = 0, ![i].added = {}]
            /\ UNCHANGED moduleNodeToLoadAddedImports
       ELSE IF r = "result" \/ loads[i].plugin = Len(plugins)
       THEN /\ loads' = [loads EXCEPT ![i].st = "returned", ![i].plugin = 0,
                                       ![i].addedImports = 0, ![i].order = Returned(loads) + 1]
            /\ moduleNodeToLoadAddedImports' = loads[i].addedImports
       ELSE /\ loads' = [loads EXCEPT ![i].plugin = @ + 1]
            /\ UNCHANGED moduleNodeToLoadAddedImports
    /\ UNCHANGED <<addedSets, transforms, offImp>>

\* container.transform(code, id): a new TransformContext, which takes the
\* Set recorded on the module node (the object itself, or null), and the
\* first transform handler is called.  seen and after are history: the
\* files in the context's set at that moment, and the load call that
\* returned last before it.
ContainerTransform ==
    /\ Len(loads) + Len(transforms) < MaxImpCalls
    /\ InFlight(loads) + InFlight(transforms) < MaxInFlight
    /\ ~(closed /\ recoverable)
    /\ transforms' = Append(transforms,
            [st |-> "running", plugin |-> 1,
             addedImports |-> moduleNodeToLoadAddedImports,
             seen |-> AddedImports(moduleNodeToLoadAddedImports, addedSets),
             after |-> LastLoad(loads)])
    /\ UNCHANGED <<addedSets, moduleNodeToLoadAddedImports, loads, offImp>>

\* The running transform handler of call t calls this.addWatchFile(f).
TransformAddWatchFile(t, f) ==
    /\ transforms[t].st = "running"
    /\ f \notin AddedImports(transforms[t].addedImports, addedSets)
    /\ LET r == addWatchFile(transforms[t].addedImports, f, addedSets) IN
        /\ addedSets' = r[2]
        /\ transforms' = [transforms EXCEPT ![t].addedImports = r[1]]
    /\ UNCHANGED <<moduleNodeToLoadAddedImports, loads, offImp>>

\* The transform handler of call t settles: the next plugin's handler is
\* called; the call ends when the last one returns or when one throws, and
\* its context is dropped.
TransformSettle(t, ok) ==
    /\ transforms[t].st = "running"
    /\ transforms' = [transforms EXCEPT ![t] =
            IF ~ok \/ @.plugin = Len(plugins)
            THEN [@ EXCEPT !.st = "ended", !.plugin = 0, !.addedImports = 0]
            ELSE [@ EXCEPT !.plugin = @ + 1]]
    /\ UNCHANGED <<addedSets, moduleNodeToLoadAddedImports, loads, offImp>>

InitImp ==
    /\ FinderIdle /\ GraphIdle /\ MapIdle /\ PipeIdle /\ CtxIdle /\ DevIdle /\ ImpIdle
    /\ plugins = <<"A", "B">>
    /\ recoverable = FALSE
    /\ closed = FALSE
    /\ processesing = {}
    /\ calls = <<>>
    /\ runs = <<>>
    /\ count = [h \in ParallelHooks |-> [p \in Plugins |-> 0]]
    /\ running = {}
    /\ lateStart = {}

ImpNext ==
    \/ ContainerLoad
    \/ \E i \in 1..Len(loads), f \in WatchedFiles : LoadAddWatchFile(i, f)
    \/ \E i \in 1..Len(loads), r \in {"null", "result", "throw"} : LoadSettle(i, r)
    \/ ContainerTransform
    \/ \E t \in 1..Len(transforms), f \in WatchedFiles : TransformAddWatchFile(t, f)
    \/ \E t \in 1..Len(transforms), ok \in BOOLEAN : TransformSettle(t, ok)

\* Load and transform calls of one module, with handlers that add watch files.
SpecImp == InitImp /\ [][ImpNext]_vars

EnvIdle == FinderIdle /\ GraphIdle /\ MapIdle /\ PipeIdle /\ CtxIdle /\ DevIdle /\ ImpIdle

NoCount == [h \in ParallelHooks |-> [p \in Plugins |-> 0]]

Init ==
    /\ EnvIdle
    /\ plugins = <<"P", "Q">>
    /\ recoverable \in BOOLEAN
    /\ closed = FALSE
    /\ processesing = {}
    /\ calls = <<>>
    /\ runs = <<>>
    /\ count = NoCount
    /\ running = {}
    /\ lateStart = {}

\* A container of request-serving plugins on an environment that never closes
\* (the recoverable option is not read).
InitChain ==
    /\ EnvIdle
    /\ plugins = <<"A", "B", "C">>
    /\ recoverable = FALSE
    /\ closed = FALSE
    /\ processesing = {}
    /\ calls = <<>>
    /\ runs = <<>>
    /\ count = NoCount
    /\ running = {}
    /\ lateStart = {}

Next ==
    \/ \E kind \in ChainHooks : CallStart(kind, Room)
    \/ \E i \in 1..Len(calls) : HandlerSettle(i)
    \/ \E i \in 1..Len(calls) : ChainStep(i)
    \/ BuildStartCall
    \/ WatchChangeCall
    \/ CloseCall
    \/ \E i \in 1..Len(runs) : CloseDrained(i)
    \/ \E i \in 1..Len(runs) : RunResume(i)
    \/ \E i \in 1..Len(runs), h \in ParallelHooks, p \in Plugins, ok \in BOOLEAN :
          ParallelSettle(i, h, p, ok)

\* A container of file-watching plugins, the third with a sequential handler.
InitHook ==
    /\ EnvIdle
    /\ plugins = <<"E", "F", "G", "H">>
    /\ recoverable = FALSE
    /\ closed = FALSE
    /\ processesing = {}
    /\ calls = <<>>
    /\ runs = <<>>
    /\ count = NoCount
    /\ running = {}
    /\ lateStart = {}

HookNext ==
    \/ WatchChangeCall
    \/ \E i \in 1..Len(runs) : RunResume(i)
    \/ \E i \in 1..Len(runs), h \in ParallelHooks, p \in Plugins, ok \in BOOLEAN :
          ParallelSettle(i, h, p, ok)

ChainNext ==
    \/ \E kind \in ChainHooks : CallStart(kind, ChainRoom)
    \/ \E i \in 1..Len(calls), skipSelf \in BOOLEAN : HandlerResolve(i, skipSelf, ChainRoom)
    \/ \E i \in 1..Len(calls) : HandlerSettle(i)
    \/ \E i \in 1..Len(calls) : ChainStep(i)

\* An open container of two plugins, both with a resolveId handler.
InitResolve ==
    /\ EnvIdle
    /\ plugins = <<"A", "B">>
    /\ recoverable = FALSE
    /\ closed = FALSE
    /\ processesing = {}
    /\ calls = <<>>
    /\ runs = <<>>
    /\ count = NoCount
    /\ running = {}
    /\ lateStart = {}

\* One resolution: container.resolveId is called once from outside, and the
\* handlers it reaches call this.resolve, with or without skipSelf: false.
ResolveNext ==
    \/ calls = <<>> /\ CallStart("resolveId", ResolveRoom)
    \/ \E i \in 1..Len(calls), skipSelf \in BOOLEAN : HandlerResolve(i, skipSelf, ResolveRoom)
    \/ \E i \in 1..Len(calls) : HandlerSettle(i)
    \/ \E i \in 1..Len(calls) : ChainStep(i)

\* The container over its whole life: calls, buildStart, watchChange and close.
Spec == Init /\ [][Next]_vars

\* resolveId / load / transform calls, and nested this.resolve calls, on a container
\* that stays open.
SpecChain == InitChain /\ [][ChainNext]_vars

\* A resolveId call on an open container and the this.resolve calls nested in it.
SpecResolve == InitResolve /\ [][ResolveNext]_vars

\* watchChange calls on a container whose plugins mix parallel and sequential handlers.
SpecHook == InitHook /\ [][HookNext]_vars

(***************************************************************************)
(* Shutdown: the closed check of resolveId / load / transform.             *)
(***************************************************************************)
CallIds == 1..Len(calls)
RunIds == 1..Len(runs)

\* Some plugin defines the hook of call c.
Served(c) == getSortedPlugins(c.kind) # <<>>
Rejected(c) == c.st = "thrown"
ClosedServer(c) == Rejected(c) /\ c.err.code = ERR_CLOSED_SERVER

LogPlugins(c) == [k \in 1..Len(c.log) |-> c.log[k].plugin]

Eligible(c) == SelectSeq(getSortedPlugins(c.kind), LAMBDA p : p \notin c.skip)

\* The outcome r of a handler makes its call go on to the next plugin.
GoesOn(kind, r) ==
    CASE kind = "load" -> r.t = "null"
      [] kind = "resolveId" -> IsFalsy(r)
      [] OTHER -> r.t # "throw"

Closers == {i \in RunIds : runs[i].kind = "close"}
FirstClosers == {i \in Closers : runs[i].first}
Definers(h) == {p \in Plugins : \E k \in 1..Len(plugins) : plugins[k] = p /\ Defines(p, h)}

CalledOnce(h) == \A p \in Definers(h) : count[h][p] = 1

\* C3 as stated: after any close() call has resolved, the tracked set is empty and
\* every buildEnd and closeBundle handler has been called exactly once.
C3_AsStated ==
    \A i \in Closers :
        runs[i].st = "resolved" =>
            processesing = {} /\ CalledOnce("buildEnd") /\ CalledOnce("closeBundle")

\* C3 amended: after the close() call that set the closed flag has resolved, every
\* buildEnd and closeBundle handler has been called exactly once and every hook
\* promise that was tracked when that call was made has left the tracked set; over
\* any number of close() calls no such handler is called twice.  (A close() call
\* that finds the flag set resolves at once, and promises tracked after the first
\* call's snapshot can still be in the set.)
C3_FirstCloseQuiesces ==
    /\ \A i \in FirstClosers :
          runs[i].st = "resolved" =>
              /\ CalledOnce("buildEnd") /\ CalledOnce("closeBundle")
              /\ runs[i].snapshot \cap processesing = {}
    /\ \A h \in {"buildEnd", "closeBundle"}, p \in Plugins : count[h][p] <= 1

\* The first close() has resolved after draining a non-empty snapshot, and a second
\* close() call has been made.
C3_Witness ==
    /\ \E i \in FirstClosers : runs[i].st = "resolved"
    /\ \E j \in Closers : ~runs[j].first

C3_WitnessDrained ==
    \E i \in FirstClosers : runs[i].st = "resolved" /\ runs[i].snapshot # {}

\* C4: in every close(), buildEnd handlers start only when closed is set and every
\* hook promise tracked when close() was called has settled, and closeBundle
\* handlers start only when every buildEnd handler has been called and has settled.
C4_CloseOrder ==
    /\ \A i \in RunIds : runs[i].kind = "close" => closed
    /\ (\E p \in Plugins : count["buildEnd"][p] > 0) =>
          /\ closed
          /\ \A i \in FirstClosers : runs[i].snapshot \cap processesing = {}
    /\ (\E p \in Plugins : count["closeBundle"][p] > 0) =>
          /\ CalledOnce("buildEnd")
          /\ ~\E i \in RunIds, p \in Plugins : <<i, "buildEnd", p>> \in running

\* close() found a hook promise in flight, and has reached its closeBundle phase.
C4_Witness ==
    /\ \E i \in FirstClosers : runs[i].snapshot # {}
    /\ \E p \in Plugins : count["closeBundle"][p] > 0

\* C5: when close() has settled, every buildEnd handler and every closeBundle
\* handler has been invoked, whether or not one of them threw or rejected.
C5_AsStated ==
    \A i \in FirstClosers :
        runs[i].st \in {"resolved", "rejected"} =>
            /\ \A p \in Definers("buildEnd") : count["buildEnd"][p] >= 1
            /\ \A p \in Definers("closeBundle") : count["closeBundle"][p] >= 1

\* C6: a buildStart or watchChange call made after close() was called rejects
\* without running a handler, so no buildStart handler runs after the same plugin's
\* buildEnd handler.
C6_AsStated ==
    /\ \A i \in RunIds :
          (runs[i].kind \in {"buildStart", "watchChange"} /\ runs[i].born # "open")
              => runs[i].st = "rejected"
    /\ lateStart = {}

(***************************************************************************)
(* The chains of resolveId, load and transform.                            *)
(***************************************************************************)
Handled(r) == r.t \notin {"pending", "throw"}
Range(q) == {q[k] : k \in 1..Len(q)}
IndexIn(q, x) == Min({k \in 1..Len(q) : q[k] = x})

\* C7: in a resolveId or load call, a handler that returned a non-null result is
\* the last handler invoked in that call, and the call returns what that result
\* gives: the result itself for load, the resolved id for resolveId.
C7_AsStated ==
    \A i \in CallIds :
        LET c == calls[i]
        IN  c.kind \in {"resolveId", "load"} =>
                \A k \in 1..Len(c.log) :
                    (Handled(c.log[k].out) /\ IsNonNull(c.log[k].out)) =>
                        /\ k = Len(c.log)
                        /\ c.st = "returned" =>
                              c.ret = IF c.kind = "load" THEN c.log[k].out
                                      ELSE ResolveReturn(c.log[k].out.v)

\* C8: in every resolveId, load or transform call the handlers invoked so far are,
\* in order, the first plugins of the sorted list that the call does not skip; the
\* sorted order puts 'pre' before default before 'post' and keeps the input order
\* inside a tier; and every handler but the last invoked has settled.
C8_SortedOneAtATime ==
    \A i \in CallIds :
        LET c == calls[i]
            n == Len(c.log)
        IN  /\ LogPlugins(c) = SubSeq(Eligible(c), 1, n)
            /\ \A k, l \in 1..n :
                  k < l =>
                      LET a == c.log[k].plugin
                          b == c.log[l].plugin
                      IN  \/ Tier(Order(a, c.kind)) < Tier(Order(b, c.kind))
                          \/ /\ Tier(Order(a, c.kind)) = Tier(Order(b, c.kind))
                             /\ IndexIn(plugins, a) < IndexIn(plugins, b)
            /\ \A k \in 1..(n - 1) : c.log[k].out # PENDING
            /\ (n > 0 /\ c.log[n].out = PENDING) <=> c.st = "await"

\* A resolveId call has invoked the handlers of a 'pre', a default and a 'post'
\* plugin, in another order than the plugins were given, while another call is
\* waiting for a handler.
C8_Witness ==
    \E i, j \in CallIds :
        /\ i # j
        /\ calls[i].kind = "resolveId" /\ Len(calls[i].log) = 3
        /\ LogPlugins(calls[i]) # plugins
        /\ calls[j].st = "await"

\* Two transform handlers of the same tier have run in one call, in input order.
C8_WitnessTie ==
    \E i \in CallIds : calls[i].kind = "transform" /\ Len(calls[i].log) = 2

\* The code a transform handler's result produces, if it produces one.
Produces(r) == r.t \in {"str", "obj"}
RECURSIVE CodeAfter(_, _)
CodeAfter(log, k) ==
    IF k = 0 THEN InputCode
    ELSE IF Produces(log[k].out) THEN log[k].out.v
    ELSE CodeAfter(log, k - 1)

\* C9: in a transform call every handler receives the code of the most recent
\* earlier handler that returned one (the input code if none did), and the call
\* returns the last such code.
C9_AsStated ==
    \A i \in CallIds :
        LET c == calls[i]
        IN  c.kind = "transform" =>
                /\ \A k \in 1..Len(c.log) : c.log[k].in = CodeAfter(c.log, k - 1)
                /\ c.st = "returned" => c.ret = OBJ(CodeAfter(c.log, Len(c.log)))

Nested == {i \in CallIds : calls[i].parent # 0}
PassedOn(c) ==
    /\ c.st = "returned"
    /\ \A k \in 1..Len(c.log) :
          c.log[k].plugin # c.caller => GoesOn("resolveId", c.log[k].out)

\* C10: a resolution started by this.resolve with default options skips the calling
\* plugin and never invokes its resolveId handler; one started with skipSelf: false
\* skips no plugin, and invokes the calling plugin's handler whenever every handler
\* sorted before it passes the id on.
C10_SkipSelf ==
    \A i \in Nested :
        LET c == calls[i]
        IN  /\ c.caller \in Range(LogPlugins(calls[c.parent]))
            /\ c.skipSelf  => c.caller \in c.skip /\ c.caller \notin Range(LogPlugins(c))
            /\ ~c.skipSelf => /\ c.skip = {}
                              /\ LogPlugins(c) = SubSeq(getSortedPlugins("resolveId"), 1, Len(c.log))
                              /\ PassedOn(c) => c.caller \in Range(LogPlugins(c))

\* A nested resolution with default options has run through every other plugin.
C10_Witness ==
    \E i \in Nested :
        /\ calls[i].skipSelf /\ calls[i].st = "returned"
        /\ Len(calls[i].log) = Len(plugins) - 1

\* A nested resolution with skipSelf: false has invoked the calling plugin's handler.
C10_WitnessReentered ==
    \E i \in Nested : ~calls[i].skipSelf /\ calls[i].caller \in Range(LogPlugins(calls[i]))

(***************************************************************************)
(* Parallel hooks with sequential handlers.                                *)
(***************************************************************************)
Begun(r, h, p) == <<h, p>> \in r.begun
Fulfilled(r, h, p) == <<h, p>> \in r.fulfilled

\* C11: in every run of a parallel hook, once a sequential handler has started every
\* handler sorted before it has started and resolved; once a handler sorted after a
\* sequential handler has started, the sequential handler has resolved; and a
\* non-sequential handler that follows a started non-sequential handler has started
\* as well, whether or not the first has settled, unless the first threw on the spot.
C11_SequentialBarrier ==
    \A i \in RunIds, h \in ParallelHooks :
        LET r == runs[i]
            S == getSortedPlugins(h)
        IN  \A k, l \in 1..Len(S) :
                k < l =>
                    /\ (Sequential(S[l], h) /\ Begun(r, h, S[l]))
                           => Begun(r, h, S[k]) /\ Fulfilled(r, h, S[k])
                    /\ (Sequential(S[k], h) /\ Begun(r, h, S[l]))
                           => Begun(r, h, S[k]) /\ Fulfilled(r, h, S[k])
                    /\ (l = k + 1 /\ ~Sequential(S[k], h) /\ ~Sequential(S[l], h)
                            /\ Begun(r, h, S[k]) /\ ~Begun(r, h, S[l]))
                           => /\ r.st = "rejected"
                              /\ ~Fulfilled(r, h, S[k])
                              /\ <<i, h, S[k]>> \notin running

\* In one watchChange run the handlers of E and F were started together and E's is
\* still unsettled, ...
C11_WitnessParallel ==
    \E i \in RunIds :
        /\ Begun(runs[i], "watchChange", "F")
        /\ <<i, "watchChange", "E">> \in running
        /\ <<i, "watchChange", "F">> \in running

\* ... and a run went through the barrier: E and F resolved, then the sequential
\* handler of G ran to its end, then H was started.
C11_Witness ==
    \E i \in RunIds :
        /\ Begun(runs[i], "watchChange", "H")
        /\ <<i, "watchChange", "H">> \in running
        /\ runs[i].st = "waitFinal"

(***************************************************************************)
(* The context a handler runs on.                                          *)
(***************************************************************************)
\* C12: whatever calls run concurrently, while a handler invoked by a resolveId,
\* load or transform call has not settled, the context it was given has its plugin
\* as active plugin, and for transform has the call's id as active id and the code
\* the handler received as active code.
C12_ContextOfHandler ==
    \A i \in CallIds :
        LET c == calls[i]
        IN  (c.log # <<>> /\ Last(c.log).out = PENDING) =>
                /\ c.active = Last(c.log).plugin
                /\ c.kind = "transform" =>
                      /\ c.activeId = c.id
                      /\ c.activeCode = Last(c.log).in

\* Two transform calls for different modules wait for a handler at the same time,
\* one of them for a handler that received code another handler produced.
C12_Witness ==
    \E i, j \in CallIds :
        /\ i # j
        /\ calls[i].kind = "transform" /\ calls[j].kind = "transform"
        /\ calls[i].st = "await" /\ calls[j].st = "await"
        /\ calls[i].id # calls[j].id
        /\ calls[i].active # calls[j].active
        /\ Last(calls[i].log).in # InputCode

(***************************************************************************)
(* The crawl-end finder.                                                   *)
(***************************************************************************)
\* C13: whatever requests are registered and settle, whatever waits are made and
\* timers fire, the crawl-end callback has been invoked at most once.
C13_CrawlEndAtMostOnce == finder.fired <= 1

\* The callback has fired, and a request registered afterwards has settled and set
\* the timeout again.
C13_Witness ==
    /\ finder.fired = 1
    /\ finder.timeoutHandle # NoTimer
    /\ \E id \in Ids : crawlLog.doneCalls[id] = 1 /\ id \notin requests.running

\* C14: the crawl-end callback is invoked only when the registered set last became
\* empty exactly callCrawlEndIfIdleAfterMs (50 ms) earlier: whenever the set becomes
\* empty the timeout starts afresh with the full delay.
C14_FiresAfterQuietDelay ==
    /\ crawlLog.firedAfter \subseteq {callCrawlEndIfIdleAfterMs}
    /\ (finder.timeoutHandle # NoTimer /\ ~finder.cancelled /\ crawlLog.sinceEmpty < SinceCap)
           => finder.timeoutHandle + crawlLog.sinceEmpty = callCrawlEndIfIdleAfterMs
    /\ (finder.registeredIds = {} /\ ~finder.cancelled /\ finder.fired = 0
            /\ crawlLog.sinceEmpty # Never /\ crawlLog.removed # {})
           => finder.timeoutHandle # NoTimer \/ crawlLog.sinceEmpty >= callCrawlEndIfIdleAfterMs

\* Requests left the registered set at different moments, and the callback fired
\* 50 ms after the set last became empty.
C14_Witness ==
    /\ finder.fired = 1
    /\ Cardinality(crawlLog.removed) >= 2
    /\ crawlLog.firedAfter = {callCrawlEndIfIdleAfterMs}
    /\ crawlLog.sinceEmpty = callCrawlEndIfIdleAfterMs

C16_CancelledNeverResolves ==
    (finder.cancelled /\ finder.fired = 0) => ~finder.resolved

\* cancel() came first; since then the last request has settled, the delay has
\* long passed, and a processing still waits for the promise.
C16_Witness ==
    /\ finder.cancelled /\ finder.fired = 0
    /\ finder.registeredIds = {} /\ crawlLog.removed # {}
    /\ crawlLog.sinceEmpty = SinceCap
    /\ requests.blocked # {}

\* C17: done has been invoked at most once for every id, also after further
\* registerRequestProcessing calls with that id; the registered ids are seen ids;
\* and no id that was deleted from the registered set is in it again.
C17_RegisteredOnce ==
    /\ \A id \in Ids : crawlLog.doneCalls[id] <= 1
    /\ finder.registeredIds \subseteq finder.seenIds
    /\ crawlLog.removed \cap finder.registeredIds = {}
    /\ \A id \in Ids : crawlLog.doneCalls[id] = 1 => id \in finder.seenIds
    /\ \A id \in requests.running : crawlLog.doneCalls[id] = 1

\* registerRequestProcessing was called again with an id that had left the
\* registered set, and with an id waitForRequestsIdle had marked as seen.
C17_Witness ==
    /\ \E id \in crawlLog.again \cap crawlLog.removed : crawlLog.doneCalls[id] = 1
    /\ \E id \in crawlLog.again : crawlLog.doneCalls[id] = 0

InvalidateEligible(mod) ==
    /\ mod.exists
    /\ mod.isSelfAccepting
    /\ mod.lastHMRTimestamp > 0
    /\ ~mod.lastHMRInvalidationReceived

C19_InvalidateGuard ==
    \A k \in 1..Len(hmrLog) :
        LET e == hmrLog[k]
            mod == e.before[e.path]
        IN  e.ev = "invalidate" =>
                /\ e.call.called <=> InvalidateEligible(mod)
                /\ InvalidateEligible(mod) =>
                    /\ e.call.modules = mod.importers
                    /\ e.call.timestamp = mod.lastHMRTimestamp
                    /\ e.call.afterInvalidation
                    /\ e.after = [e.before EXCEPT ![e.path].lastHMRInvalidationReceived = TRUE]
                /\ ~InvalidateEligible(mod) => e.after = e.before
                /\ \A j \in 1..(k - 1) :
                    (/\ hmrLog[j].ev = "invalidate"
                     /\ hmrLog[j].path = e.path
                     /\ hmrLog[j].call.called
                     /\ e.call.called)
                    => \E r \in (j + 1)..(k - 1) :
                        hmrLog[r].ev = "update" /\ hmrLog[r].path = e.path

\* Scenario: /m.js with importer i1 at timestamp 100 is invalidated twice;
\* the first event calls updateModules, the second is a no-op.
C19_Witness ==
    /\ Len(hmrLog) >= 2
    /\ hmrLog[1].ev = "invalidate" /\ hmrLog[1].path = "/m.js"
    /\ hmrLog[1].call = [called |-> TRUE, modules |-> {"i1"}, timestamp |-> 100,
                         afterInvalidation |-> TRUE]
    /\ hmrLog[2].ev = "invalidate" /\ hmrLog[2].path = "/m.js"
    /\ ~hmrLog[2].call.called
    /\ hmrLog[2].after = hmrLog[2].before
    /\ graph["/m.js"].lastHMRInvalidationReceived

\* After a reset the same module triggers a second call.
C19_WitnessReset ==
    /\ Len(hmrLog) = 3
    /\ hmrLog[1].ev = "invalidate" /\ hmrLog[1].call.called
    /\ hmrLog[2].ev = "update" /\ hmrLog[2].path = hmrLog[1].path
    /\ hmrLog[3].ev = "invalidate" /\ hmrLog[3].path = hmrLog[1].path
    /\ hmrLog[3].call.called

(***************************************************************************)
(* C20 as stated: whenever the chain contains the sentinel {mappings: ''}  *)
(* as a member, collapsing yields the sentinel, whatever the other members *)
(* are and wherever the sentinel stands.                                   *)
(***************************************************************************)
HasSentinel(chain) == \E k \in 1..Len(chain) : IsSentinel(Parse(chain[k]))

C20_AsStated ==
    (mapLog.called /\ HasSentinel(mapLog.chain)) => mapLog.ret = Sentinel

\* The members of the chain before the first sentinel.
BeforeSentinel(chain) ==
    LET first == Min({k \in 1..Len(chain) : IsSentinel(Parse(chain[k]))})
    IN  {Parse(chain[k]) : k \in 1..(first - 1)}

(***************************************************************************)
(* C20: whenever the chain contains the sentinel {mappings: ''} and every  *)
(* member before the first sentinel has a version field, collapsing yields *)
(* the sentinel, whatever follows it and whatever was combined before; the *)
(* chain is then empty.                                                    *)
(***************************************************************************)
C20_SentinelWins ==
    (/\ mapLog.called
     /\ HasSentinel(mapLog.chain)
     /\ \A m \in BeforeSentinel(mapLog.chain) : HasVersion(m))
    => mapLog.ret = Sentinel

\* A valid map, then the sentinel, then a nullified map: the sentinel wins.
C20_Witness ==
    /\ mapLog.called
    /\ Len(mapLog.chain) = 3
    /\ HasVersion(Parse(mapLog.chain[1]))
    /\ IsSentinel(Parse(mapLog.chain[2]))
    /\ mapLog.chain[3] = Nullified
    /\ mapLog.ret = Sentinel
    /\ tctx.combinedMap = Sentinel
    /\ tctx.sourcemapChain = <<>>

(***************************************************************************)
(* C25: the crawl-end callback is invoked only in a state where the        *)
(* registered set is empty and cancel() has not been called; a timeout     *)
(* that comes due while some id is registered, or after cancel(), invokes  *)
(* nothing and resolves nothing.                                           *)
(***************************************************************************)
C25_FiresOnlyWhenIdle ==
    [][ /\ finder'.fired > finder.fired
            => finder.registeredIds = {} /\ ~finder.cancelled
        /\ (/\ finder.timeoutHandle = 0
            /\ finder'.timeoutHandle = NoTimer
            /\ finder.registeredIds # {} \/ finder.cancelled)
            => /\ finder'.fired = finder.fired
               /\ finder'.resolved = finder.resolved ]_vars

\* The set emptied once (which started a timeout, as cancel() was never called),
\* an id was registered before the timeout came due, and the timeout is gone
\* without the callback invoked: it came due while the id was registered.
C25_Witness ==
    /\ ~finder.cancelled
    /\ crawlLog.sinceEmpty # Never
    /\ finder.timeoutHandle = NoTimer
    /\ finder.registeredIds # {}
    /\ finder.fired = 0
    /\ ~finder.resolved

(***************************************************************************)
(* C26 as stated: after every call of _getCombinedSourcemap the chain is   *)
(* empty, whatever kinds of maps it held and whatever the previous         *)
(* combined map was.                                                       *)
(***************************************************************************)
C26_AsStated ==
    mapLog.called => mapLog.left = <<>>

(***************************************************************************)
(* C29 as stated: in a transform call a handler's result is skipped only   *)
(* when it is null or undefined; every string result, the empty string     *)
(* included, replaces the current code, and an object result replaces it   *)
(* exactly when its code field is not undefined.                           *)
(***************************************************************************)
\* The local variable code once the result of the k-th invoked handler has been
\* dealt with: what the next handler receives, or what the call returns.
CodeLeft(c, k) ==
    IF k < Len(c.log) THEN c.log[k + 1].in ELSE c.ret.v

C29_AsStated ==
    \A i \in CallIds :
        LET c == calls[i]
        IN  c.kind = "transform" =>
                \A k \in 1..Len(c.log) :
                    (k < Len(c.log) \/ c.st = "returned") =>
                        CodeLeft(c, k) = CASE c.log[k].out.t = "str" -> c.log[k].out.v
                                           [] c.log[k].out.t = "obj" -> c.log[k].out.v
                                           [] OTHER                  -> c.log[k].in

(***************************************************************************)
(* C21 as stated: when a plugin's transform handler throws, transform()    *)
(* rejects with an error whose plugin is the plugin whose handler threw,   *)
(* whose id is the id being transformed (unless the error carried one),    *)
(* whose pluginCode is the code the handler received; when the error       *)
(* carries a numeric pos, loc is the line and column of that offset in     *)
(* that code.                                                              *)
(***************************************************************************)
\* Pipes that rejected with the error their own handler threw.
ThrewItself == {i \in 1..Len(pipes) : pipes[i].st = "thrown" /\ pipes[i].passed = NoErr}

C21_AsStated ==
    \A i \in ThrewItself :
        LET c == pipes[i] IN
        /\ c.err.plugin = c.by
        /\ c.err.id = IF c.raw.id # NullStr THEN c.raw.id ELSE c.id
        /\ c.err.pluginCode = c.input
        /\ (c.raw.pos # NoPos /\ c.raw.pos <= Len(c.input)) =>
              /\ c.err.loc.line = numberToPos(c.input, c.raw.pos).line
              /\ c.err.loc.column = numberToPos(c.input, c.raw.pos).column

\* Scenario C: pos 3 in "abcdef" gives line 1, column 3.
C21_ScenarioC ==
    \E i \in ThrewItself :
        LET c == pipes[i] IN
        /\ c.input = Abcdef /\ c.raw.pos = 3 /\ c.id = FileX
        /\ c.err.plugin = "A" /\ c.err.id = FileX /\ c.err.pluginCode = Abcdef
        /\ c.err.loc = [file |-> FileX, line |-> 1, column |-> 3]

(***************************************************************************)
(* C27 as stated: an error that already has a pluginCode field passes      *)
(* through the formatter with no field changed, so an error raised by a    *)
(* plugin in a nested transform (reached through this.load from another    *)
(* plugin's transform handler) keeps the inner plugin's name, the inner    *)
(* module id and the inner code when the outer transform's catch re-throws *)
(* it.                                                                     *)
(***************************************************************************)
\* Pipes whose catch got the error of a nested transform.
Rethrew == {i \in 1..Len(pipes) : pipes[i].st = "thrown" /\ pipes[i].passed # NoErr}

C27_AsStated ==
    \A i \in Rethrew :
        LET c == pipes[i] IN
        /\ c.passed.pluginCode # NullStr => c.err = c.passed
        /\ c.err.plugin = c.by
        /\ c.err.id = IF c.raw.id # NullStr THEN c.raw.id ELSE c.at
        /\ c.err.pluginCode = c.input

\* A nested transform of non-empty code failed in plugin B and the outer
\* transform, in plugin A, rejected with the error as it came.
C27_Passed ==
    \E i \in Rethrew :
        LET c == pipes[i] IN
        /\ c.active = "A" /\ c.by = "B"
        /\ c.err = c.passed
        /\ c.err.plugin = "B" /\ c.err.id = FileY /\ c.err.pluginCode = Abcdef

(***************************************************************************)
(* C24 as stated: at every moment each asynchronous hook invocation the    *)
(* container started (buildStart, resolveId, load, transform, watchChange) *)
(* that has not settled is in the tracked promise set, through its own     *)
(* promise or the promise of the hookParallel call that made it, and every *)
(* settled one has been removed from the set.                              *)
(***************************************************************************)
\* The tracked promise that stands for an unsettled invocation.
TrackedFor(x) == <<"run", x[1], 0>>

C24_AsStated ==
    /\ \A i \in CallIds :
          calls[i].st = "await" => PromiseOf(i, calls[i]) \in processesing
    /\ \A x \in running :
          x[2] \in {"buildStart", "watchChange"} => TrackedFor(x) \in processesing
    /\ \A t \in processesing :
          \/ t[1] = "call" /\ calls[t[2]].st = "await" /\ calls[t[2]].pos = t[3]
          \/ t[1] = "run" /\ runs[t[2]].st \notin {"resolved", "rejected"}

(***************************************************************************)
(* C22 as stated: emitFile, setAssetSource or getFileName called on the    *)
(* context of any hook invocation (resolveId, load, transform, buildStart, *)
(* watchChange, buildEnd, closeBundle) never throws: it logs a warning     *)
(* naming the active plugin and returns an empty id (setAssetSource        *)
(* returns nothing).                                                       *)
(***************************************************************************)
C22_AsStated ==
    \A k \in 1..Len(ctxLog) :
        LET e == ctxLog[k] IN
        /\ ~e.out.threw
        /\ e.out.warned = e.plugin
        /\ e.method # "setAssetSource" => e.out.ret = <<>>

\* In a resolveId handler the call warns and returns ''.
C22_Warned ==
    \E k \in 1..Len(ctxLog) :
        /\ ctxLog[k].hook = "resolveId" /\ ctxLog[k].method = "emitFile"
        /\ ~ctxLog[k].out.threw /\ ctxLog[k].out.warned = ctxLog[k].plugin
        /\ ctxLog[k].out.ret = <<>>

(***************************************************************************)
(* C23 as stated: DevEnvironment.close() calls the abort callback of every *)
(* request that is in the pending-request map when shutdown starts.        *)
(***************************************************************************)
C23_AsStated ==
    env.closeSt # "none" => env.atClose \subseteq env.aborted

(***************************************************************************)
(* C23: DevEnvironment.close() calls no abort callback; on an initialised  *)
(* environment it resolves only once the pending-request map is empty, so  *)
(* after every request that was pending when shutdown started has settled. *)
(***************************************************************************)
C23_CloseWaitsForRequests ==
    /\ env.aborted = {}
    /\ env.closeSt = "resolved" => env.atDone = {}

\* close() was called with a request pending and has resolved, with no abort.
C23_Witness ==
    /\ env.closeSt = "resolved"
    /\ env.atClose # {}
    /\ env.aborted = {}
    /\ env.pendingRequests = {}

(***************************************************************************)
(* C30 as stated: for any number of init() calls on one environment,       *)
(* sequential or overlapping, plugins are resolved and the container is    *)
(* created exactly once, and once the promise of any init() call has       *)
(* resolved, accessing pluginContainer succeeds.                           *)
(***************************************************************************)
C30_AsStated ==
    /\ env.resolved <= 1
    /\ env.created <= 1
    /\ inits # <<>> => env.resolved = 1
    /\ \A a \in env.accesses : a[1] => ~a[2]

\* C28: the added imports a transform context of the module starts with are
\* exactly the files passed to addWatchFile during the load call of the
\* module that returned last before it (none if that load added none).
C28_AsStated ==
    \A t \in 1..Len(transforms) :
        transforms[t].after # 0 => transforms[t].seen = loads[transforms[t].after].added

\* The files of the last load are among those the transform context starts with.
C28_LoadFilesFlow ==
    \A t \in 1..Len(transforms) :
        transforms[t].after # 0 => loads[transforms[t].after].added \subseteq transforms[t].seen

\* A transform context started with the files of a load that added some.
C28_Inherited ==
    \E t \in 1..Len(transforms) :
        /\ transforms[t].after # 0
        /\ transforms[t].seen # {}
        /\ transforms[t].seen = loads[transforms[t].after].added

(***************************************************************************)
(* C31 as stated: the map a call of _getCombinedSourcemap returns is the   *)
(* one a single call returns on a fresh context whose chain holds every    *)
(* map pushed so far, whatever calls were made between the pushes.         *)
(***************************************************************************)
\* Collapsing once: one call on a context that was never collapsed.
CollapsedOnce(pushes) ==
    _getCombinedSourcemap([NewTransformContext EXCEPT !.sourcemapChain = pushes]).ret

\* The maps that had been pushed when the last call was made.
PushedBefore == SubSeq(mapLog.pushes, 1, mapLog.at)

C31_AsStated ==
    mapLog.called => mapLog.ret = CollapsedOnce(PushedBefore)

\* The same, for chains in which every map has a version field or is the
\* sentinel.
C31_NoNullified ==
    (mapLog.called /\ \A k \in 1..mapLog.at : mapLog.pushes[k] # Nullified)
    => mapLog.ret = CollapsedOnce(PushedBefore)

(***************************************************************************)
(* C32: along a chain of nested this.resolve calls that all keep the       *)
(* default skipSelf, the skip set of a call holds every plugin whose       *)
(* resolveId handler is running higher in the chain; the call enters none  *)
(* of their handlers, no plugin appears twice among them, and the chain is *)
(* at most as deep as there are plugins with a resolveId handler.          *)
(***************************************************************************)
\* The plugins whose handlers are running above call i, outermost first: the
\* handler that made call i through this.resolve, the one that made its
\* parent, and so on.
RECURSIVE Callers(_)
Callers(i) ==
    IF calls[i].parent = 0 THEN <<>>
    ELSE Append(Callers(calls[i].parent), calls[i].caller)

\* Every this.resolve call from the outer call down to call i kept skipSelf.
RECURSIVE AllDefault(_)
AllDefault(i) ==
    calls[i].parent = 0 \/ (calls[i].skipSelf /\ AllDefault(calls[i].parent))

C32_SkipsAccumulate ==
    \A i \in CallIds :
        (calls[i].kind = "resolveId" /\ AllDefault(i)) =>
            /\ Range(Callers(i)) \subseteq calls[i].skip
            /\ Range(LogPlugins(calls[i])) \cap Range(Callers(i)) = {}
            /\ Cardinality(Range(Callers(i))) = Len(Callers(i))
            /\ Len(Callers(i)) <= Len(getSortedPlugins("resolveId"))

\* The chain went as deep as there are plugins: the innermost call skipped
\* every plugin, entered no handler and returned null.
C32_Witness ==
    \E i \in CallIds :
        /\ AllDefault(i)
        /\ Len(Callers(i)) = Len(getSortedPlugins("resolveId"))
        /\ calls[i].skip = Range(plugins)
        /\ calls[i].log = <<>>
        /\ calls[i].st = "returned"

(***************************************************************************)
(* DevEnvironment.close() on an environment whose container exists.        *)
(***************************************************************************)
\* What holds of close() at every moment: by its first await it has set
\* _closing, closed the hot channel and cancelled the crawl-end finder; it
\* does not reject when the container existed; it has resolved only with the
\* pending-request map empty and both close() promises settled.
CloseSafety ==
    /\ env.closeSt # "none" => (env.closing /\ env.hotClosed /\ env.cancelled)
    /\ env.ready => env.closeSt # "rejected"
    /\ env.closeSt = "resolved" =>
            /\ env.atDone = {}
            /\ env.containerClose = "settled"
            /\ env.optimizer => env.optimizerClose = "settled"

\* close() is awaiting / one of the two close() promises is unsettled.
CloseWaiting == env.closeSt = "waiting"
CloseResolved == env.closeSt = "resolved"
ClosePromisePending == env.containerClose = "pending" \/ env.optimizerClose = "pending"

(***************************************************************************)
(* C33 as stated: the above, and close() resolves eventually given only    *)
(* that every pending request settles and leaves the map.                  *)
(***************************************************************************)
C33_AsStated ==
    /\ []CloseSafety
    /\ CloseWaiting ~> CloseResolved

(***************************************************************************)
(* C33: on an initialised environment close() sets _closing, closes the    *)
(* hot channel and cancels the crawl-end finder before its first await,    *)
(* never rejects, and resolves only after the pending-request map is empty *)
(* and the container's and the optimizer's close() have settled; it        *)
(* resolves eventually provided every pending request settles and leaves   *)
(* the map and the promises of those two close() calls settle.             *)
(***************************************************************************)
C33_ClosesOnceAllSettle ==
    /\ []CloseSafety
    /\ (ClosePromisePending ~> ~ClosePromisePending) => (CloseWaiting ~> CloseResolved)

\* close() resolved on an environment with an optimizer and a request that
\* was pending when it was called.
C33_Witness ==
    /\ env.closeSt = "resolved"
    /\ env.ready /\ env.optimizer
    /\ env.atClose # {}
    /\ env.containerClose = "settled" /\ env.optimizerClose = "settled"
    /\ env.hotClosed /\ env.cancelled /\ env.closing

====
